---- MODULE Spec2Model ----
(***************************************************************************)
(* Expense tracker: the aggregation functions of the dashboard, expenses,  *)
(* budgets and goals views, and the view state they are computed from.     *)
(*                                                                         *)
(* Representation.                                                         *)
(*   - A calendar date ('YYYY-MM-DD', a Postgres date column) is the       *)
(*     number of days since 1970-01-01.                                    *)
(*   - A JavaScript Date (an instant) is a number of hours since           *)
(*     1970-01-01T00:00Z.  The local zone is a fixed offset tz in hours.   *)
(*   - A monetary amount is an integer number of currency units; a         *)
(*     quotient of amounts is a JsNum: an exact fraction, or one of the    *)
(*     IEEE values +Infinity, -Infinity, NaN that a division by 0 yields.  *)
(*   - A text is a sequence of one-character strings.                      *)
(*   - A nullable field is an optional value: <<>> or <<value>>.           *)
(***************************************************************************)
EXTENDS Integers, Sequences, FiniteSets, TLC

VARIABLES
    tz,                \* offset of the local time zone from UTC, in hours
    now,               \* the instant new Date() returns
    user,              \* session: the id of the authenticated principal
    db_expenses,       \* gateway: the principal's rows of expenses
    db_budgets,        \* gateway: the principal's rows of budgets
    db_goals,          \* gateway: the principal's rows of savings_goals
    activeTab,         \* AppContent: the mounted view
    loading,           \* mounted view: loading flag
    expenses,          \* mounted view: in-memory expense collection
    budgets,           \* mounted view: in-memory budget collection
    goals,             \* mounted view: in-memory goal collection
    categories,        \* mounted view: in-memory category collection
    searchTerm,        \* ExpensesList: search box
    selectedCategory,  \* ExpensesList: category filter
    screen,            \* derived values computed by the last render
    inflight,          \* requests sent whose continuation has not run yet
    issued,            \* number of requests the mounted view has sent
    applied,           \* number of continuations that have set the view's state
    removed,           \* ids whose delete the view has applied, until reloaded
    dialog,            \* the last confirm() dialog and the user's answer
    arrived,           \* the load whose response the view stored last
    form               \* the view's form: closed, or open with its saving flag;
                       \* signed out, the sign-in form: mode, loading flag, error

vars == <<tz, now, user, db_expenses, db_budgets, db_goals, activeTab, loading,
          expenses, budgets, goals, categories, searchTerm, selectedCategory,
          screen, inflight, issued, applied, removed, dialog, arrived, form>>

\* An optional value (null, undefined or a value): <<>> or <<value>>.
None    == <<>>
Some(x) == <<x>>

\* The principals that may be signed in, and the one the views are shown to.
Principals == {"u1", "u2"}
Principal  == "u1"

----------------------------------------------------------------------------
(* Calendar: the proleptic Gregorian calendar JavaScript's Date uses.      *)

\* Day number of the calendar date y-m-d.
DaysFromCivil(y, m, d) ==
    LET yy  == IF m <= 2 THEN y - 1 ELSE y
        era == yy \div 400
        yoe == yy - era * 400
        mp  == IF m > 2 THEN m - 3 ELSE m + 9
        doy == (153 * mp + 2) \div 5 + d - 1
        doe == yoe * 365 + yoe \div 4 - yoe \div 100 + doy
    IN  era * 146097 + doe - 719468

\* The calendar date <<year, month, day>> of a day number (month 1..12).
CivilFromDays(z0) ==
    LET z   == z0 + 719468
        era == z \div 146097
        doe == z - era * 146097
        yoe == (doe - doe \div 1460 + doe \div 36524 - doe \div 146096) \div 365
        doy == doe - (365 * yoe + yoe \div 4 - yoe \div 100)
        mp  == (5 * doy + 2) \div 153
        d   == doy - (153 * mp + 2) \div 5 + 1
        m   == IF mp < 10 THEN mp + 3 ELSE mp - 9
        y   == yoe + era * 400 + (IF m <= 2 THEN 1 ELSE 0)
    IN  <<y, m, d>>

\* new Date('YYYY-MM-DD'): a date-only string is parsed as UTC midnight.
ParseDate(date) == date * 24

\* The local calendar day (a day number) of an instant in zone offset zone.
LocalDay(instant, zone) == (instant + zone) \div 24

\* Date.prototype.getMonth(): the month of the local date, 0..11.
getMonth(instant, zone) == CivilFromDays(LocalDay(instant, zone))[2] - 1

\* Date.prototype.getFullYear(): the year of the local date.
getFullYear(instant, zone) == CivilFromDays(LocalDay(instant, zone))[1]

\* date-fns compareAsc: -1, 0 or 1.
compareAsc(a, b) == IF a < b THEN -1 ELSE IF a > b THEN 1 ELSE 0

\* date-fns differenceInCalendarDays: difference of the local calendar days.
differenceInCalendarDays(left, right, zone) ==
    LocalDay(left, zone) - LocalDay(right, zone)

\* date-fns differenceInDays: the number of FULL days between two instants,
\* truncated towards zero.
differenceInDays(left, right, zone) ==
    LET sign  == compareAsc(left, right)
        diff  == differenceInCalendarDays(left, right, zone)
        adiff == IF diff < 0 THEN -diff ELSE diff
        moved == left - sign * adiff * 24
        notFull == IF compareAsc(moved, right) = -sign THEN 1 ELSE 0
    IN  sign * (adiff - notFull)

----------------------------------------------------------------------------
(* JavaScript numbers produced by a division.                              *)

Fin(n)    == [k |-> "fin", n |-> n, d |-> 1]
Frac(n,d) == [k |-> "fin", n |-> n, d |-> d]
PosInf    == [k |-> "pinf", n |-> 1, d |-> 1]
NegInf    == [k |-> "ninf", n |-> -1, d |-> 1]
NaN       == [k |-> "nan", n |-> 0, d |-> 1]

\* a / b for integers a and b; the denominator of the result is positive.
JsDiv(a, b) ==
    IF b > 0 THEN Frac(a, b)
    ELSE IF b < 0 THEN Frac(-a, -b)
    ELSE IF a > 0 THEN PosInf
    ELSE IF a < 0 THEN NegInf
    ELSE NaN

\* x * c for a JsNum x and an integer c > 0.
JsTimes(x, c) == IF x.k = "fin" THEN Frac(x.n * c, x.d) ELSE x

\* x > y, x < y and x >= y; every comparison with NaN is false.
JsLt(x, y) ==
    CASE x.k = "nan" \/ y.k = "nan" -> FALSE
      [] x.k = "pinf" -> FALSE
      [] y.k = "ninf" -> FALSE
      [] x.k = "ninf" -> TRUE
      [] y.k = "pinf" -> TRUE
      [] OTHER -> x.n * y.d < y.n * x.d
JsGt(x, y) == JsLt(y, x)
JsEq(x, y) ==
    CASE x.k = "nan" \/ y.k = "nan" -> FALSE
      [] x.k = "fin" /\ y.k = "fin" -> x.n * y.d = y.n * x.d
      [] OTHER -> x.k = y.k
JsGe(x, y) == JsGt(x, y) \/ JsEq(x, y)

\* Math.min and Math.max of two numbers: NaN when either is NaN.
MathMin(x, y) ==
    IF x.k = "nan" \/ y.k = "nan" THEN NaN ELSE IF JsLt(y, x) THEN y ELSE x
MathMax(x, y) ==
    IF x.k = "nan" \/ y.k = "nan" THEN NaN ELSE IF JsGt(y, x) THEN y ELSE x

\* Math.max(0, n) for an integer n.
IntMax0(n) == IF n > 0 THEN n ELSE 0

----------------------------------------------------------------------------
(* Texts.                                                                  *)

\* String.prototype.toLowerCase on one character.
LowerChar(c) ==
    CASE c = "C" -> "c" [] c = "O" -> "o" [] c = "F" -> "f"
      [] c = "T" -> "t" [] c = "E" -> "e" [] c = "A" -> "a"
      [] OTHER -> c

toLowerCase(s) == [i \in DOMAIN s |-> LowerChar(s[i])]

\* String.prototype.includes: sub occurs in s as a contiguous substring.
includes(s, sub) ==
    \E i \in 0..(Len(s) - Len(sub)) : SubSeq(s, i + 1, i + Len(sub)) = sub

----------------------------------------------------------------------------
(* The gateway's rows.                                                     *)

\* Three of the default categories every principal is seeded with.
SeededCategories ==
    { [id |-> "c1", name |-> "Food & Dining",  color |-> "#EF4444"],
      [id |-> "c2", name |-> "Transportation", color |-> "#3B82F6"],
      [id |-> "c8", name |-> "Other",          color |-> "#6B7280"] }

\* Rows of expenses.  e4 refers to a category of another principal, which
\* row level security keeps out of the embedded resource.
ExpensePool ==
    { [id |-> "e1", category_id |-> "c1", amount |-> 50,
       description |-> <<"C","o","f">>, notes |-> None,
       date |-> DaysFromCivil(2024, 3, 8)],
      [id |-> "e2", category_id |-> "c1", amount |-> 70,
       description |-> <<"t","e","a">>, notes |-> Some(<<"C","O","F">>),
       date |-> DaysFromCivil(2024, 3, 1)],
      [id |-> "e3", category_id |-> "c8", amount |-> 20,
       description |-> <<"o","a","t">>, notes |-> None,
       date |-> DaysFromCivil(2024, 2, 20)],
      [id |-> "e4", category_id |-> "c9", amount |-> 20,
       description |-> <<"F","O","E">>, notes |-> None,
       date |-> DaysFromCivil(2023, 3, 10)],
      [id |-> "e5", category_id |-> "c8", amount |-> 20,
       description |-> <<"e","a","t">>, notes |-> Some(<<"o","a","t">>),
       date |-> DaysFromCivil(2024, 3, 20)] }

\* Rows of budgets, in the shapes the budget form creates (a week or a
\* month from the start date).  The form checks no sign of the amount, so
\* an amount may be zero or negative.
BudgetPool ==
    { [id |-> "b1", category_id |-> "c1", amount |-> 100, period |-> "weekly",
       start_date |-> DaysFromCivil(2024, 3, 1),
       end_date   |-> DaysFromCivil(2024, 3, 8)],
      [id |-> "b2", category_id |-> "c8", amount |-> 100, period |-> "monthly",
       start_date |-> DaysFromCivil(2024, 2, 15),
       end_date   |-> DaysFromCivil(2024, 3, 15)],
      [id |-> "b3", category_id |-> "c8", amount |-> 100, period |-> "monthly",
       start_date |-> DaysFromCivil(2024, 3, 15),
       end_date   |-> DaysFromCivil(2024, 4, 15)],
      [id |-> "b4", category_id |-> "c1", amount |-> -50, period |-> "weekly",
       start_date |-> DaysFromCivil(2024, 3, 9),
       end_date   |-> DaysFromCivil(2024, 3, 16)],
      [id |-> "b5", category_id |-> "c1", amount |-> 0, period |-> "weekly",
       start_date |-> DaysFromCivil(2024, 2, 19),
       end_date   |-> DaysFromCivil(2024, 2, 26)] }

\* Rows of savings_goals.  The goal form checks no sign of the target.
GoalPool ==
    { [id |-> "g1", target_amount |-> 1000, current_amount |-> 200,
       target_date |-> DaysFromCivil(2024, 3, 25)],
      [id |-> "g2", target_amount |-> 500, current_amount |-> 600,
       target_date |-> DaysFromCivil(2024, 3, 25)],
      [id |-> "g3", target_amount |-> 1000, current_amount |-> 200,
       target_date |-> DaysFromCivil(2024, 3, 12)],
      [id |-> "g4", target_amount |-> 500, current_amount |-> 500,
       target_date |-> DaysFromCivil(2024, 3, 12)],
      [id |-> "g5", target_amount |-> 300, current_amount |-> 0,
       target_date |-> DaysFromCivil(2024, 3, 15)],
      [id |-> "g6", target_amount |-> 300, current_amount |-> 100,
       target_date |-> DaysFromCivil(2024, 3, 16)],
      [id |-> "g7", target_amount |-> 0, current_amount |-> 0,
       target_date |-> DaysFromCivil(2024, 3, 12)] }

\* Local zones: New York (EST), UTC, Helsinki (EET).
Zones == {-5, 0, 2}

\* Instants the views are rendered at: 2024-03-15 at 00:00Z and at 14:00Z.
Midnight  == ParseDate(DaysFromCivil(2024, 3, 15))
Afternoon == ParseDate(DaysFromCivil(2024, 3, 15)) + 14

\* What the user may type into the search box.
SearchTerms == { <<>>, <<"c","O">>, <<"e","a">> }

MaxExpenses == 3
MaxBudgets  == 1
MaxGoals    == 2

\* The subsets of S with at most n elements.
SubsetsUpTo(S, n) == { T \in SUBSET S : Cardinality(T) <= n }

\* The sequences that list every element of the finite set S once.
Orderings(S) ==
    { s \in [1..Cardinality(S) -> S] :
        \A i, j \in 1..Cardinality(S) : i # j => s[i] # s[j] }

\* .order('date', { ascending: false })
OrderedByDateDesc(s) ==
    \A i \in 1..(Len(s) - 1) : s[i].date >= s[i + 1].date

\* The orderings of the rows S that .order('date', { ascending: false })
\* allows, built from the latest date down; rows that tie come in any order.
RECURSIVE SortedByDateDesc(_)
SortedByDateDesc(S) ==
    IF S = {} THEN { <<>> }
    ELSE UNION { { <<m>> \o t : t \in SortedByDateDesc(S \ {m}) } :
                    m \in { x \in S : \A y \in S : x.date >= y.date } }

\* .order('target_date', { ascending: true })
OrderedByTargetDateAsc(s) ==
    \A i \in 1..(Len(s) - 1) : s[i].target_date <= s[i + 1].target_date

\* The embedded resource category:categories(*) of a row: the category the
\* row refers to, when the principal has one with that id.
EmbedCategory(row) ==
    LET hit == { c \in SeededCategories : c.id = row.category_id }
    IN  IF hit = {} THEN None ELSE Some(CHOOSE c \in hit : TRUE)

\* A row as select('*, category:categories(*)') returns it, and as
\* select('*') returns it (no category property).
WithCategory(row)    == [f \in DOMAIN row \cup {"category"} |->
                            IF f = "category" THEN EmbedCategory(row) ELSE row[f]]
WithoutCategory(row) == [f \in DOMAIN row \cup {"category"} |->
                            IF f = "category" THEN None ELSE row[f]]

\* The rows of a response, each as its select clause returns it.
RowsWithCategory(s)    == [i \in DOMAIN s |-> WithCategory(s[i])]
RowsWithoutCategory(s) == [i \in DOMAIN s |-> WithoutCategory(s[i])]

\* .limit(n)
Limit(s, n) == IF Len(s) > n THEN SubSeq(s, 1, n) ELSE s

DashboardLimit == 10

----------------------------------------------------------------------------
(* Dashboard.                                                              *)

\* Array.prototype.reduce((sum, expense) => sum + expense.amount, 0)
RECURSIVE reduceAmount(_)
reduceAmount(s) ==
    IF s = <<>> THEN 0
    ELSE reduceAmount(SubSeq(s, 1, Len(s) - 1)) + s[Len(s)].amount

\* The filter callback of calculateMonthlySpending.
InCurrentMonth(expense, at, zone) ==
    LET expenseDate == ParseDate(expense.date)
    IN  /\ getMonth(expenseDate, zone) = getMonth(at, zone)
        /\ getFullYear(expenseDate, zone) = getFullYear(at, zone)

calculateMonthlySpending(exps, at, zone) ==
    reduceAmount(SelectSeq(exps, LAMBDA e : InCurrentMonth(e, at, zone)))

\* expense.category?.name || 'Other' and expense.category?.color || '#6B7280'
categoryName(expense) ==
    IF expense.category = None \/ expense.category[1].name = ""
    THEN "Other" ELSE expense.category[1].name
categoryColor(expense) ==
    IF expense.category = None \/ expense.category[1].color = ""
    THEN "#6B7280" ELSE expense.category[1].color

\* categoryStep with the amount assigned to the entry, not added to it.
categoryStep_assign(acc, expense) ==
    LET name == categoryName(expense)
        acc1 == IF \E i \in DOMAIN acc : acc[i].name = name THEN acc
                ELSE Append(acc, [name |-> name, value |-> 0,
                                  color |-> categoryColor(expense)])
    IN  [i \in DOMAIN acc1 |->
            IF acc1[i].name = name
            THEN [acc1[i] EXCEPT !.value = expense.amount]
            ELSE acc1[i]]

\* One step of the reducer of getExpensesByCategory.  acc lists the entries
\* in the order their keys were added, the order Object.values keeps.
categoryStep(acc, expense) ==
    LET name  == categoryName(expense)
        color == categoryColor(expense)
        acc1  == IF \E i \in DOMAIN acc : acc[i].name = name THEN acc
                 ELSE Append(acc, [name |-> name, value |-> 0, color |-> color])
    IN  [i \in DOMAIN acc1 |->
            IF acc1[i].name = name
            THEN [acc1[i] EXCEPT !.value = @ + expense.amount]
            ELSE acc1[i]]

RECURSIVE getExpensesByCategory(_)
getExpensesByCategory(exps) ==
    IF exps = <<>> THEN <<>>
    ELSE categoryStep(getExpensesByCategory(SubSeq(exps, 1, Len(exps) - 1)),
                      exps[Len(exps)])

\* The filter callback of the dashboard's getBudgetProgress.
DashboardMatches(expense, budget, at, zone) ==
    /\ expense.category_id = budget.category_id
    /\ InCurrentMonth(expense, at, zone)

\* The dashboard's getBudgetProgress, for one budget.
DashboardProgress(budget, exps, at, zone) ==
    LET spent == reduceAmount(
                    SelectSeq(exps, LAMBDA e : DashboardMatches(e, budget, at, zone)))
        percentage == JsTimes(JsDiv(spent, budget.amount), 100)
    IN  [category     |-> IF budget.category = None \/ budget.category[1].name = ""
                          THEN "Unknown" ELSE budget.category[1].name,
         budget       |-> budget.amount,
         spent        |-> spent,
         remaining    |-> IntMax0(budget.amount - spent),
         percentage   |-> MathMin(Fin(100), percentage),
         isOverBudget |-> JsGt(percentage, Fin(100))]

Dashboard_getBudgetProgress(buds, exps, at, zone) ==
    [i \in DOMAIN buds |-> DashboardProgress(buds[i], exps, at, zone)]

----------------------------------------------------------------------------
(* Budgets view.                                                           *)

\* BudgetMatches with the end of the window left out of it.
BudgetMatches_endExclusive(expense, budget) ==
    /\ expense.category_id = budget.category_id
    /\ ParseDate(expense.date) >= ParseDate(budget.start_date)
    /\ ParseDate(expense.date) < ParseDate(budget.end_date)

\* The filter callback of the budgets view's getBudgetProgress.
BudgetMatches(expense, budget) ==
    LET startDate   == ParseDate(budget.start_date)
        endDate     == ParseDate(budget.end_date)
        expenseDate == ParseDate(expense.date)
    IN  /\ expense.category_id = budget.category_id
        /\ expenseDate >= startDate
        /\ expenseDate <= endDate

BudgetsList_getBudgetProgress(budget, exps) ==
    LET spent == reduceAmount(SelectSeq(exps, LAMBDA e : BudgetMatches(e, budget)))
        percentage == JsTimes(JsDiv(spent, budget.amount), 100)
        isOverBudget == JsGt(percentage, Fin(100))
        remaining == IntMax0(budget.amount - spent)
    IN  [spent        |-> spent,
         remaining    |-> remaining,
         percentage   |-> MathMin(Fin(100), percentage),
         isOverBudget |-> isOverBudget]

----------------------------------------------------------------------------
(* Goals view.                                                             *)

\* differenceInDays(new Date(goal.target_date), new Date())
goalDaysLeft(goal, at, zone) ==
    differenceInDays(ParseDate(goal.target_date), at, zone)

\* getRecommendedSavings with the guard daysLeft < 0.
getRecommendedSavings_guardBelowZero(goal, at, zone) ==
    LET daily == JsDiv(goal.target_amount - goal.current_amount,
                       goalDaysLeft(goal, at, zone))
    IN  IF goalDaysLeft(goal, at, zone) < 0
        THEN [daily |-> Fin(0), weekly |-> Fin(0), monthly |-> Fin(0)]
        ELSE [daily   |-> MathMax(Fin(0), daily),
              weekly  |-> MathMax(Fin(0), JsTimes(daily, 7)),
              monthly |-> MathMax(Fin(0), JsTimes(daily, 30))]

getRecommendedSavings(goal, at, zone) ==
    LET remaining == goal.target_amount - goal.current_amount
        daysLeft  == goalDaysLeft(goal, at, zone)
        daily     == JsDiv(remaining, daysLeft)
        weekly    == JsTimes(daily, 7)
        monthly   == JsTimes(daily, 30)
    IN  IF daysLeft <= 0
        THEN [daily |-> Fin(0), weekly |-> Fin(0), monthly |-> Fin(0)]
        ELSE [daily   |-> MathMax(Fin(0), daily),
              weekly  |-> MathMax(Fin(0), weekly),
              monthly |-> MathMax(Fin(0), monthly)]

\* What the goals view shows for one goal: the panel is the completed
\* banner, the recommended paces, or the overdue notice with its day count.
GoalCard(goal, at, zone) ==
    LET progress        == JsTimes(JsDiv(goal.current_amount, goal.target_amount), 100)
        daysLeft        == goalDaysLeft(goal, at, zone)
        recommendations == getRecommendedSavings(goal, at, zone)
        isCompleted     == JsGe(progress, Fin(100))
    IN  [id              |-> goal.id,
         daysLeft        |-> daysLeft,
         recommendations |-> recommendations,
         isCompleted     |-> isCompleted,
         panel           |-> IF isCompleted THEN "completed"
                             ELSE IF daysLeft > 0 THEN "recommended"
                             ELSE "overdue",
         overdueDays     |-> IF daysLeft < 0 THEN -daysLeft ELSE daysLeft]

----------------------------------------------------------------------------
(* Expenses view.                                                          *)

\* ExpenseMatches with the search term compared as typed.
ExpenseMatches_termAsTyped(expense, term, category) ==
    /\ \/ includes(toLowerCase(expense.description), term)
       \/ /\ expense.notes # None
          /\ includes(toLowerCase(expense.notes[1]), term)
    /\ category = "" \/ expense.category_id = category

\* The callback of filteredExpenses.
ExpenseMatches(expense, term, category) ==
    LET matchesSearch ==
            \/ includes(toLowerCase(expense.description), toLowerCase(term))
            \/ /\ expense.notes # None
               /\ includes(toLowerCase(expense.notes[1]), toLowerCase(term))
        matchesCategory == category = "" \/ expense.category_id = category
    IN  matchesSearch /\ matchesCategory

filteredExpenses(exps, term, category) ==
    SelectSeq(exps, LAMBDA e : ExpenseMatches(e, term, category))

----------------------------------------------------------------------------
(* Rendering: what the mounted view computes from its state.  The          *)
(* dashboard and the expenses view compute their derived values before     *)
(* they test the loading flag; the budgets and goals views behind it.      *)

Render(tab, ld, exps, buds, gls, term, category, at, zone) ==
    [monthlySpending    |-> IF tab = "dashboard"
                            THEN calculateMonthlySpending(exps, at, zone) ELSE 0,
     expensesByCategory |-> IF tab = "dashboard"
                            THEN getExpensesByCategory(exps) ELSE <<>>,
     budgetProgress     |-> IF tab = "dashboard"
                            THEN Dashboard_getBudgetProgress(buds, exps, at, zone)
                            ELSE <<>>,
     budgetCards        |-> IF tab = "budgets" /\ ~ld
                            THEN [i \in DOMAIN buds |->
                                    BudgetsList_getBudgetProgress(buds[i], exps)]
                            ELSE <<>>,
     filteredExpenses   |-> IF tab = "expenses"
                            THEN filteredExpenses(exps, term, category) ELSE <<>>,
     totalAmount        |-> IF tab = "expenses"
                            THEN reduceAmount(filteredExpenses(exps, term, category))
                            ELSE 0,
     goalCards          |-> IF tab = "goals" /\ ~ld
                            THEN [i \in DOMAIN gls |-> GoalCard(gls[i], at, zone)]
                            ELSE <<>>]

----------------------------------------------------------------------------
(* Gateway reads.  A read either fails or returns the principal's rows in  *)
(* an order its order clause allows; rows that tie, and rows read with no  *)
(* order clause, come in any order.                                        *)

\* from('expenses').select('*, category:categories(*)').order('date', desc)
SelectExpensesByDate ==
    { RowsWithCategory(s) : s \in SortedByDateDesc(db_expenses) }

\* from('expenses').select('*')
SelectExpensesPlain ==
    { RowsWithoutCategory(s) : s \in Orderings(db_expenses) }

\* from('budgets').select('*, category:categories(*)'); created_at is the
\* instant of the insert and start_date its day, so the order by created_at
\* descending is an order by start_date descending.
OrderedByCreatedDesc(s) ==
    \A i \in 1..(Len(s) - 1) : s[i].start_date >= s[i + 1].start_date
SelectBudgets ==
    { RowsWithCategory(s) : s \in Orderings(db_budgets) }
SelectBudgetsByCreated ==
    { RowsWithCategory(s) :
        s \in { o \in Orderings(db_budgets) : OrderedByCreatedDesc(o) } }

\* from('savings_goals').select('*') with and without its order clause
SelectGoals == Orderings(db_goals)
SelectGoalsByTargetDate ==
    { o \in Orderings(db_goals) : OrderedByTargetDateAsc(o) }

\* from('categories').select('*').order('name'); the dashboard reads the
\* categories with no order clause and never reads the collection again, so
\* one order stands for all of them.
SelectCategories ==
    LET byName == CHOOSE s \in Orderings(SeededCategories) :
                     /\ s[1].name = "Food & Dining"
                     /\ s[2].name = "Other"
    IN  byName

Tabs == {"dashboard", "expenses", "budgets", "goals"}

Rerender ==
    screen' = Render(activeTab', loading', expenses', budgets', goals',
                     searchTerm', selectedCategory', now', tz')

Environment == <<tz, now, user>>
Pending     == <<inflight, issued, applied, removed, dialog, arrived,
                 form>>
Gateway     == <<db_expenses, db_budgets, db_goals>>

----------------------------------------------------------------------------
(* AppContent.                                                             *)

\* onTabChange: the view of the old tab unmounts and the view of the new
\* tab mounts with its initial state.
setActiveTab(tab) ==
    /\ tab # activeTab
    /\ activeTab' = tab
    /\ loading' = TRUE
    /\ expenses' = <<>>
    /\ budgets' = <<>>
    /\ goals' = <<>>
    /\ categories' = <<>>
    /\ searchTerm' = <<>>
    /\ selectedCategory' = ""
    /\ UNCHANGED <<Environment, Pending, Gateway>>
    /\ Rerender

----------------------------------------------------------------------------
(* Dashboard.                                                              *)

\* loadDashboardData: four reads, none of them checked for an error, so a
\* failed read stores the empty collection.
loadDashboardData ==
    /\ activeTab = "dashboard"
    /\ \E okC, okE, okB, okG \in BOOLEAN :
       \E expensesData \in SelectExpensesByDate, budgetsData \in SelectBudgets,
          goalsData \in SelectGoals :
          /\ categories' = IF okC THEN SelectCategories ELSE <<>>
          /\ expenses' = IF okE THEN Limit(expensesData, DashboardLimit) ELSE <<>>
          /\ budgets' = IF okB THEN budgetsData ELSE <<>>
          /\ goals' = IF okG THEN goalsData ELSE <<>>
    /\ loading' = FALSE
    /\ UNCHANGED <<Environment, Pending, Gateway, activeTab, searchTerm, selectedCategory>>
    /\ Rerender

----------------------------------------------------------------------------
(* Budgets view.                                                           *)

BudgetsList_loadBudgets ==
    /\ activeTab = "budgets"
    /\ \E ok \in BOOLEAN : \E data \in SelectBudgetsByCreated :
          budgets' = IF ok THEN data ELSE budgets
    /\ loading' = FALSE
    /\ UNCHANGED <<Environment, Pending, Gateway, activeTab, expenses, goals, categories,
                   searchTerm, selectedCategory>>
    /\ Rerender

\* The error of the read is not looked at: a failed read stores [].
BudgetsList_loadExpenses ==
    /\ activeTab = "budgets"
    /\ \E ok \in BOOLEAN : \E data \in SelectExpensesPlain :
          expenses' = IF ok THEN data ELSE <<>>
    /\ UNCHANGED <<Environment, Pending, Gateway, activeTab, loading, budgets, goals,
                   categories, searchTerm, selectedCategory>>
    /\ Rerender

\* handleDelete of a listed budget: nothing happens unless the user
\* confirms; a failed delete leaves the collection as it is.
BudgetsList_handleDelete(id) ==
    /\ activeTab = "budgets" /\ ~loading
    /\ \E i \in DOMAIN budgets : budgets[i].id = id
    /\ \E confirmed, ok \in BOOLEAN :
          IF confirmed /\ ok
          THEN /\ db_budgets' = { b \in db_budgets : b.id # id }
               /\ budgets' = SelectSeq(budgets, LAMBDA b : b.id # id)
          ELSE UNCHANGED <<db_budgets, budgets>>
    /\ UNCHANGED <<Environment, Pending, db_expenses, db_goals, activeTab, loading,
                   expenses, goals, categories, searchTerm, selectedCategory>>
    /\ Rerender

----------------------------------------------------------------------------
(* Expenses view.                                                          *)

ExpensesList_loadExpenses ==
    /\ activeTab = "expenses"
    /\ \E ok \in BOOLEAN : \E data \in SelectExpensesByDate :
          expenses' = IF ok THEN data ELSE expenses
    /\ loading' = FALSE
    /\ UNCHANGED <<Environment, Pending, Gateway, activeTab, budgets, goals, categories,
                   searchTerm, selectedCategory>>
    /\ Rerender

ExpensesList_loadCategories ==
    /\ activeTab = "expenses"
    /\ \E ok \in BOOLEAN :
          categories' = IF ok THEN SelectCategories ELSE <<>>
    /\ UNCHANGED <<Environment, Pending, Gateway, activeTab, loading, expenses, budgets,
                   goals, searchTerm, selectedCategory>>
    /\ Rerender

\* onChange of the search box.
setSearchTerm(term) ==
    /\ activeTab = "expenses" /\ ~loading
    /\ searchTerm' = term
    /\ UNCHANGED <<Environment, Pending, Gateway, activeTab, loading, expenses, budgets,
                   goals, categories, selectedCategory>>
    /\ Rerender

\* onChange of the category select: "All Categories" ('') or the id of one
\* of the loaded categories.
setSelectedCategory(category) ==
    /\ activeTab = "expenses" /\ ~loading
    /\ \/ category = ""
       \/ \E i \in DOMAIN categories : categories[i].id = category
    /\ selectedCategory' = category
    /\ UNCHANGED <<Environment, Pending, Gateway, activeTab, loading, expenses, budgets,
                   goals, categories, searchTerm>>
    /\ Rerender

\* handleDelete of a listed (filtered) expense.
ExpensesList_handleDelete(id) ==
    /\ activeTab = "expenses" /\ ~loading
    /\ \E i \in DOMAIN screen.filteredExpenses : screen.filteredExpenses[i].id = id
    /\ \E confirmed, ok \in BOOLEAN :
          IF confirmed /\ ok
          THEN /\ db_expenses' = { e \in db_expenses : e.id # id }
               /\ expenses' = SelectSeq(expenses, LAMBDA e : e.id # id)
          ELSE UNCHANGED <<db_expenses, expenses>>
    /\ UNCHANGED <<Environment, Pending, db_budgets, db_goals, activeTab, loading,
                   budgets, goals, categories, searchTerm, selectedCategory>>
    /\ Rerender

----------------------------------------------------------------------------
(* Goals view.                                                             *)

loadGoals ==
    /\ activeTab = "goals"
    /\ \E ok \in BOOLEAN : \E data \in SelectGoalsByTargetDate :
          goals' = IF ok THEN data ELSE goals
    /\ loading' = FALSE
    /\ UNCHANGED <<Environment, Pending, Gateway, activeTab, expenses, budgets, categories,
                   searchTerm, selectedCategory>>
    /\ Rerender

\* handleDelete of a listed goal.
GoalsList_handleDelete(id) ==
    /\ activeTab = "goals" /\ ~loading
    /\ \E i \in DOMAIN goals : goals[i].id = id
    /\ \E confirmed, ok \in BOOLEAN :
          IF confirmed /\ ok
          THEN /\ db_goals' = { g \in db_goals : g.id # id }
               /\ goals' = SelectSeq(goals, LAMBDA g : g.id # id)
          ELSE UNCHANGED <<db_goals, goals>>
    /\ UNCHANGED <<Environment, Pending, db_expenses, db_budgets, activeTab, loading,
                   expenses, budgets, categories, searchTerm, selectedCategory>>
    /\ Rerender

----------------------------------------------------------------------------
(* Specifications.  The application starts on the dashboard, its view      *)
(* mounted and nothing loaded yet; the gateway holds the rows the          *)
(* principal has stored so far.                                            *)

InitView(instants) ==
    /\ tz \in Zones
    /\ now \in instants
    /\ activeTab = "dashboard"
    /\ loading = TRUE
    /\ expenses = <<>>
    /\ budgets = <<>>
    /\ goals = <<>>
    /\ categories = <<>>
    /\ searchTerm = <<>>
    /\ selectedCategory = ""
    /\ screen = Render("dashboard", TRUE, <<>>, <<>>, <<>>, <<>>, "", now, tz)
    /\ inflight = {}
    /\ issued = 0
    /\ applied = 0
    /\ removed = {}
    /\ dialog = None
    /\ arrived = None
    /\ form = None
    /\ user = Principal

\* A principal with expenses and budgets.
Init ==
    /\ db_expenses \in SubsetsUpTo(ExpensePool, MaxExpenses)
    /\ db_budgets \in SubsetsUpTo(BudgetPool, MaxBudgets)
    /\ db_goals = {}
    /\ InitView({Afternoon})

Next ==
    \/ \E tab \in Tabs : setActiveTab(tab)
    \/ loadDashboardData
    \/ BudgetsList_loadBudgets
    \/ BudgetsList_loadExpenses
    \/ \E id \in { b.id : b \in BudgetPool } : BudgetsList_handleDelete(id)
    \/ ExpensesList_loadExpenses
    \/ ExpensesList_loadCategories
    \/ \E term \in SearchTerms : setSearchTerm(term)
    \/ \E category \in {""} \cup { c.id : c \in SeededCategories } :
          setSelectedCategory(category)
    \/ \E id \in { e.id : e \in ExpensePool } : ExpensesList_handleDelete(id)
    \/ loadGoals

Spec == Init /\ [][Next]_vars

\* A principal with savings goals.
InitGoals ==
    /\ db_expenses = {}
    /\ db_budgets = {}
    /\ db_goals \in SubsetsUpTo(GoalPool, MaxGoals)
    /\ InitView({Midnight, Afternoon})

NextGoals ==
    \/ \E tab \in Tabs : setActiveTab(tab)
    \/ loadDashboardData
    \/ loadGoals
    \/ \E id \in { g.id : g \in GoalPool } : GoalsList_handleDelete(id)

SpecGoals == InitGoals /\ [][NextGoals]_vars

----------------------------------------------------------------------------
(* Requests in flight.  A handler runs up to its await and sends a         *)
(* request; the gateway serves the requests it has received in any order;  *)
(* the handler's continuation runs when the response arrives, in any       *)
(* order, with the variables its closure captured when the handler was     *)
(* called.                                                                 *)

\* A view sends at most MaxIssued loads and deletes after it has mounted,
\* and progress updates while it has sent fewer than MaxProgress requests.
MaxIssued == 2
MaxProgress == 3

\* A request as it is sent: the call site, the row id it names, the
\* collection and the current_amount the handler's closure holds, the
\* amount an update writes and the row an insert carries.
Request(call, id, snapshot, base, newAmount) ==
    [rid |-> issued + 1, call |-> call, id |-> id, snapshot |-> snapshot,
     base |-> base, newAmount |-> newAmount, row |-> None, epoch |-> applied,
     stage |-> "sent", ok |-> FALSE, data |-> <<>>]

\* The request r as the handler awaits it once the gateway has answered.
Settled(r, ok, data) ==
    [r EXCEPT !.stage = "settled", !.ok = ok, !.data = data]

\* The handler sends a request.
Send(r) ==
    /\ issued < MaxIssued
    /\ inflight' = inflight \cup {r}
    /\ issued' = issued + 1

\* updateProgress sends its request.
SendProgress(r) ==
    /\ issued < MaxProgress
    /\ inflight' = inflight \cup {r}
    /\ issued' = issued + 1

\* An effect sends two requests, one after the other.
SendBoth(r1, r2) ==
    /\ issued + 1 < MaxIssued
    /\ inflight' = inflight \cup {r1, [r2 EXCEPT !.rid = issued + 2]}
    /\ issued' = issued + 2

\* The gateway's answer to the request r replaces it among the requests
\* in flight.
Answer(r, ok, data) ==
    inflight' = (inflight \ {r}) \cup {Settled(r, ok, data)}

\* The rows of a collection but the one with this id:
\* collection.filter(row => row.id !== id)
filterOut(collection, id) == SelectSeq(collection, LAMBDA row : row.id # id)

\* goals.map(goal => goal.id === id ? {...goal, current_amount} : goal)
mapCurrentAmount(collection, id, newAmount) ==
    [i \in DOMAIN collection |->
        IF collection[i].id = id
        THEN [collection[i] EXCEPT !.current_amount = newAmount]
        ELSE collection[i]]

\* The ids of the rows of a collection.
Ids(collection) == { collection[i].id : i \in DOMAIN collection }

\* What the user may type into the increment box of a goal card, as
\* parseFloat reads it: the empty box reads as NaN.
Entries == { Fin(10), Fin(20), Fin(0), Fin(-5), NaN }

----------------------------------------------------------------------------
(* The gateway serves a request.                                           *)

\* from('savings_goals').select('*').order('target_date') is served.
Gateway_selectGoals(r) ==
    /\ r \in inflight /\ r.stage = "sent" /\ r.call = "loadGoals"
    /\ \/ \E data \in SelectGoalsByTargetDate :
             inflight' = (inflight \ {r}) \cup {Settled(r, TRUE, data)}
       \/ inflight' = (inflight \ {r}) \cup {Settled(r, FALSE, <<>>)}
    /\ UNCHANGED <<Environment, Gateway, activeTab, loading, expenses, budgets,
                   goals, categories, searchTerm, selectedCategory, screen,
                   issued, applied, removed, dialog,
                   arrived, form>>

\* from('savings_goals').delete().eq('id', id) is served.
Gateway_deleteGoal(r) ==
    /\ r \in inflight /\ r.stage = "sent" /\ r.call = "GoalsList.handleDelete"
    /\ \/ /\ db_goals' = { g \in db_goals : g.id # r.id }
          /\ inflight' = (inflight \ {r}) \cup {Settled(r, TRUE, <<>>)}
       \/ /\ db_goals' = db_goals
          /\ inflight' = (inflight \ {r}) \cup {Settled(r, FALSE, <<>>)}
    /\ UNCHANGED <<Environment, db_expenses, db_budgets, activeTab, loading,
                   expenses, budgets, goals, categories, searchTerm,
                   selectedCategory, screen, issued, applied, removed, dialog,
                   arrived, form>>

\* An update served as an increment of the stored amount.
Gateway_updateGoal_increment(r) ==
    /\ r \in inflight /\ r.stage = "sent" /\ r.call = "updateProgress"
    /\ \/ /\ db_goals' = { IF g.id = r.id
                           THEN [g EXCEPT !.current_amount =
                                    g.current_amount + (r.newAmount - r.base)]
                           ELSE g : g \in db_goals }
          /\ inflight' = (inflight \ {r}) \cup {Settled(r, TRUE, <<>>)}
       \/ /\ db_goals' = db_goals
          /\ inflight' = (inflight \ {r}) \cup {Settled(r, FALSE, <<>>)}
    /\ UNCHANGED <<Environment, db_expenses, db_budgets, activeTab, loading,
                   expenses, budgets, goals, categories, searchTerm,
                   selectedCategory, screen, issued, applied, removed, dialog,
                   arrived, form>>

\* from('savings_goals').update({current_amount}).eq('id', id) is served:
\* the stored amount is replaced by the one the request carries.
Gateway_updateGoal(r) ==
    /\ r \in inflight /\ r.stage = "sent" /\ r.call = "updateProgress"
    /\ \/ /\ db_goals' = { IF g.id = r.id
                           THEN [g EXCEPT !.current_amount = r.newAmount]
                           ELSE g : g \in db_goals }
          /\ inflight' = (inflight \ {r}) \cup {Settled(r, TRUE, <<>>)}
       \/ /\ db_goals' = db_goals
          /\ inflight' = (inflight \ {r}) \cup {Settled(r, FALSE, <<>>)}
    /\ UNCHANGED <<Environment, db_expenses, db_budgets, activeTab, loading,
                   expenses, budgets, goals, categories, searchTerm,
                   selectedCategory, screen, issued, applied, removed, dialog,
                   arrived, form>>

\* from('expenses').select(...) is served: with the embedded category and
\* ordered by date for the expenses view, plain for the budgets view.
Gateway_selectExpenses(r) ==
    /\ r \in inflight /\ r.stage = "sent"
    /\ r.call \in {"ExpensesList.loadExpenses", "BudgetsList.loadExpenses"}
    /\ \/ \E data \in IF r.call = "ExpensesList.loadExpenses"
                      THEN SelectExpensesByDate ELSE SelectExpensesPlain :
             Answer(r, TRUE, data)
       \/ Answer(r, FALSE, <<>>)
    /\ UNCHANGED <<Environment, Gateway, activeTab, loading, expenses, budgets,
                   goals, categories, searchTerm, selectedCategory, screen,
                   issued, applied, removed, dialog,
                   arrived, form>>

\* from('categories').select('*').order('name') is served.
Gateway_selectCategories(r) ==
    /\ r \in inflight /\ r.stage = "sent" /\ r.call = "loadCategories"
    /\ \/ Answer(r, TRUE, SelectCategories)
       \/ Answer(r, FALSE, <<>>)
    /\ UNCHANGED <<Environment, Gateway, activeTab, loading, expenses, budgets,
                   goals, categories, searchTerm, selectedCategory, screen,
                   issued, applied, removed, dialog,
                   arrived, form>>

\* from('budgets').select(...).order('created_at') is served.
Gateway_selectBudgets(r) ==
    /\ r \in inflight /\ r.stage = "sent" /\ r.call = "loadBudgets"
    /\ \/ \E data \in SelectBudgetsByCreated : Answer(r, TRUE, data)
       \/ Answer(r, FALSE, <<>>)
    /\ UNCHANGED <<Environment, Gateway, activeTab, loading, expenses, budgets,
                   goals, categories, searchTerm, selectedCategory, screen,
                   issued, applied, removed, dialog,
                   arrived, form>>

\* from('expenses').delete().eq('id', id) is served.
Gateway_deleteExpense(r) ==
    /\ r \in inflight /\ r.stage = "sent" /\ r.call = "ExpensesList.handleDelete"
    /\ \/ /\ db_expenses' = { e \in db_expenses : e.id # r.id }
          /\ Answer(r, TRUE, <<>>)
       \/ /\ db_expenses' = db_expenses
          /\ Answer(r, FALSE, <<>>)
    /\ UNCHANGED <<Environment, db_budgets, db_goals, activeTab, loading,
                   expenses, budgets, goals, categories, searchTerm,
                   selectedCategory, screen, issued, applied, removed, dialog,
                   arrived, form>>

\* from('budgets').delete().eq('id', id) is served.
Gateway_deleteBudget(r) ==
    /\ r \in inflight /\ r.stage = "sent" /\ r.call = "BudgetsList.handleDelete"
    /\ \/ /\ db_budgets' = { b \in db_budgets : b.id # r.id }
          /\ Answer(r, TRUE, <<>>)
       \/ /\ db_budgets' = db_budgets
          /\ Answer(r, FALSE, <<>>)
    /\ UNCHANGED <<Environment, db_expenses, db_goals, activeTab, loading,
                   expenses, budgets, goals, categories, searchTerm,
                   selectedCategory, screen, issued, applied, removed, dialog,
                   arrived, form>>

----------------------------------------------------------------------------
(* Budgets view, handler by handler.                                       *)

\* The effect on [user] runs again: loadBudgets and loadExpenses, each up
\* to its await.
BudgetsList_useEffect ==
    /\ activeTab = "budgets"
    /\ loading' = TRUE
    /\ SendBoth(Request("loadBudgets", "", <<>>, 0, 0),
                Request("BudgetsList.loadExpenses", "", <<>>, 0, 0))
    /\ UNCHANGED <<Environment, Gateway, activeTab, expenses, budgets, goals,
                   categories, searchTerm, selectedCategory, applied, removed,
                   dialog,
                   arrived, form>>
    /\ Rerender

\* loadBudgets after its await.
BudgetsList_loadBudgets_response(r) ==
    /\ r \in inflight /\ r.stage = "settled" /\ r.call = "loadBudgets"
    /\ budgets' = IF r.ok THEN r.data ELSE budgets
    /\ loading' = FALSE
    /\ inflight' = inflight \ {r}
    /\ arrived' = IF r.ok THEN Some(r.rid) ELSE arrived
    /\ UNCHANGED form
    /\ applied' = IF r.ok THEN applied + 1 ELSE applied
    /\ removed' = IF r.ok THEN removed \ Ids(r.data) ELSE removed
    /\ UNCHANGED <<Environment, Gateway, activeTab, expenses, goals,
                   categories, searchTerm, selectedCategory, issued, dialog>>
    /\ Rerender

\* loadExpenses after its await: the error is not looked at, a failed read
\* stores [].
BudgetsList_loadExpenses_response(r) ==
    /\ r \in inflight /\ r.stage = "settled"
    /\ r.call = "BudgetsList.loadExpenses"
    /\ expenses' = IF r.ok THEN r.data ELSE <<>>
    /\ inflight' = inflight \ {r}
    /\ arrived' = Some(r.rid)
    /\ UNCHANGED form
    /\ applied' = applied + 1
    /\ UNCHANGED <<Environment, Gateway, activeTab, loading, budgets, goals,
                   categories, searchTerm, selectedCategory, issued, removed,
                   dialog>>
    /\ Rerender

\* handleDelete of a budget card that sends the request whatever the
\* answer to the dialog.
BudgetsList_handleDelete_request_unconfirmed(id, confirmed) ==
    /\ activeTab = "budgets" /\ ~loading
    /\ id \in Ids(budgets)
    /\ UNCHANGED <<arrived, form>>
    /\ dialog' = Some([id |-> id, confirmed |-> confirmed])
    /\ Send(Request("BudgetsList.handleDelete", id, budgets, 0, 0))
    /\ UNCHANGED <<Environment, Gateway, activeTab, loading, expenses, budgets,
                   goals, categories, searchTerm, selectedCategory, applied,
                   removed>>
    /\ Rerender

\* handleDelete of a budget card up to its await.
BudgetsList_handleDelete_request(id, confirmed) ==
    /\ activeTab = "budgets" /\ ~loading
    /\ id \in Ids(budgets)
    /\ UNCHANGED <<arrived, form>>
    /\ dialog' = Some([id |-> id, confirmed |-> confirmed])
    /\ IF confirmed
       THEN Send(Request("BudgetsList.handleDelete", id, budgets, 0, 0))
       ELSE UNCHANGED <<inflight, issued>>
    /\ UNCHANGED <<Environment, Gateway, activeTab, loading, expenses, budgets,
                   goals, categories, searchTerm, selectedCategory, applied,
                   removed>>
    /\ Rerender

\* handleDelete after its await: the budgets of the closure, filtered.
BudgetsList_handleDelete_response(r) ==
    /\ r \in inflight /\ r.stage = "settled"
    /\ r.call = "BudgetsList.handleDelete"
    /\ budgets' = IF r.ok THEN filterOut(r.snapshot, r.id) ELSE budgets
    /\ inflight' = inflight \ {r}
    /\ applied' = IF r.ok THEN applied + 1 ELSE applied
    /\ removed' = IF r.ok THEN removed \cup {r.id} ELSE removed
    /\ UNCHANGED <<Environment, Gateway, activeTab, loading, expenses, goals,
                   categories, searchTerm, selectedCategory, issued, dialog,
                   arrived, form>>
    /\ Rerender

----------------------------------------------------------------------------
(* Expenses view, handler by handler.                                      *)

\* The effect on [user] runs again: loadExpenses and loadCategories, each
\* up to its await.
ExpensesList_useEffect ==
    /\ activeTab = "expenses"
    /\ loading' = TRUE
    /\ SendBoth(Request("ExpensesList.loadExpenses", "", <<>>, 0, 0),
                Request("loadCategories", "", <<>>, 0, 0))
    /\ UNCHANGED <<Environment, Gateway, activeTab, expenses, budgets, goals,
                   categories, searchTerm, selectedCategory, applied, removed,
                   dialog,
                   arrived, form>>
    /\ Rerender

\* loadExpenses after its await.
ExpensesList_loadExpenses_response(r) ==
    /\ r \in inflight /\ r.stage = "settled"
    /\ r.call = "ExpensesList.loadExpenses"
    /\ expenses' = IF r.ok THEN r.data ELSE expenses
    /\ loading' = FALSE
    /\ inflight' = inflight \ {r}
    /\ arrived' = IF r.ok THEN Some(r.rid) ELSE arrived
    /\ UNCHANGED form
    /\ applied' = IF r.ok THEN applied + 1 ELSE applied
    /\ removed' = IF r.ok THEN removed \ Ids(r.data) ELSE removed
    /\ UNCHANGED <<Environment, Gateway, activeTab, budgets, goals,
                   categories, searchTerm, selectedCategory, issued, dialog>>
    /\ Rerender

\* loadCategories after its await: the error is not looked at.
ExpensesList_loadCategories_response(r) ==
    /\ r \in inflight /\ r.stage = "settled" /\ r.call = "loadCategories"
    /\ categories' = IF r.ok THEN r.data ELSE <<>>
    /\ inflight' = inflight \ {r}
    /\ arrived' = Some(r.rid)
    /\ UNCHANGED form
    /\ applied' = applied + 1
    /\ UNCHANGED <<Environment, Gateway, activeTab, loading, expenses, budgets,
                   goals, searchTerm, selectedCategory, issued, removed,
                   dialog>>
    /\ Rerender

\* handleDelete of a listed (filtered) expense up to its await.
ExpensesList_handleDelete_request(id, confirmed) ==
    /\ activeTab = "expenses" /\ ~loading
    /\ id \in Ids(screen.filteredExpenses)
    /\ UNCHANGED <<arrived, form>>
    /\ dialog' = Some([id |-> id, confirmed |-> confirmed])
    /\ IF confirmed
       THEN Send(Request("ExpensesList.handleDelete", id, expenses, 0, 0))
       ELSE UNCHANGED <<inflight, issued>>
    /\ UNCHANGED <<Environment, Gateway, activeTab, loading, expenses, budgets,
                   goals, categories, searchTerm, selectedCategory, applied,
                   removed>>
    /\ Rerender

\* handleDelete after its await: the expenses of the closure, filtered.
ExpensesList_handleDelete_response(r) ==
    /\ r \in inflight /\ r.stage = "settled"
    /\ r.call = "ExpensesList.handleDelete"
    /\ expenses' = IF r.ok THEN filterOut(r.snapshot, r.id) ELSE expenses
    /\ inflight' = inflight \ {r}
    /\ applied' = IF r.ok THEN applied + 1 ELSE applied
    /\ removed' = IF r.ok THEN removed \cup {r.id} ELSE removed
    /\ UNCHANGED <<Environment, Gateway, activeTab, loading, budgets, goals,
                   categories, searchTerm, selectedCategory, issued, dialog,
                   arrived, form>>
    /\ Rerender

----------------------------------------------------------------------------
(* Goals view, handler by handler.                                         *)

\* loadGoals up to its await: called by the effect on [user] and by the
\* goal form's onSave.
GoalsList_loadGoals_request ==
    /\ activeTab = "goals"
    /\ loading' = TRUE
    /\ Send(Request("loadGoals", "", <<>>, 0, 0))
    /\ UNCHANGED <<Environment, Gateway, activeTab, expenses, budgets, goals,
                   categories, searchTerm, selectedCategory, applied, removed,
                   dialog,
                   arrived, form>>
    /\ Rerender

\* loadGoals after its await, keeping the rows it holds that the response
\* does not return.
GoalsList_loadGoals_response_merge(r) ==
    /\ r \in inflight /\ r.stage = "settled" /\ r.call = "loadGoals"
    /\ goals' = IF r.ok
                THEN r.data \o SelectSeq(goals, LAMBDA g : g.id \notin Ids(r.data))
                ELSE goals
    /\ loading' = FALSE
    /\ inflight' = inflight \ {r}
    /\ arrived' = IF r.ok THEN Some(r.rid) ELSE arrived
    /\ UNCHANGED form
    /\ applied' = IF r.ok THEN applied + 1 ELSE applied
    /\ removed' = IF r.ok THEN removed \ Ids(r.data) ELSE removed
    /\ UNCHANGED <<Environment, Gateway, activeTab, expenses, budgets,
                   categories, searchTerm, selectedCategory, issued, dialog>>
    /\ Rerender

\* loadGoals after its await.
GoalsList_loadGoals_response(r) ==
    /\ r \in inflight /\ r.stage = "settled" /\ r.call = "loadGoals"
    /\ goals' = IF r.ok THEN r.data ELSE goals
    /\ loading' = FALSE
    /\ inflight' = inflight \ {r}
    /\ arrived' = IF r.ok THEN Some(r.rid) ELSE arrived
    /\ UNCHANGED form
    /\ applied' = IF r.ok THEN applied + 1 ELSE applied
    /\ removed' = IF r.ok THEN removed \ Ids(r.data) ELSE removed
    /\ UNCHANGED <<Environment, Gateway, activeTab, expenses, budgets,
                   categories, searchTerm, selectedCategory, issued, dialog>>
    /\ Rerender

\* handleDelete of a goal card up to its await: the confirm dialog, and
\* the request when the user confirms.
GoalsList_handleDelete_request(id, confirmed) ==
    /\ activeTab = "goals" /\ ~loading
    /\ id \in Ids(goals)
    /\ UNCHANGED <<arrived, form>>
    /\ dialog' = Some([id |-> id, confirmed |-> confirmed])
    /\ IF confirmed
       THEN Send(Request("GoalsList.handleDelete", id, goals, 0, 0))
       ELSE UNCHANGED <<inflight, issued>>
    /\ UNCHANGED <<Environment, Gateway, activeTab, loading, expenses, budgets,
                   goals, categories, searchTerm, selectedCategory, applied,
                   removed>>
    /\ Rerender

\* handleDelete after its await that sends the delete again when it failed.
GoalsList_handleDelete_response_retry(r) ==
    /\ r \in inflight /\ r.stage = "settled"
    /\ r.call = "GoalsList.handleDelete"
    /\ goals' = IF r.ok THEN filterOut(r.snapshot, r.id) ELSE goals
    /\ IF r.ok \/ issued >= MaxIssued
       THEN inflight' = inflight \ {r} /\ issued' = issued
       ELSE /\ inflight' = (inflight \ {r}) \cup
                             {[r EXCEPT !.rid = issued + 1, !.stage = "sent"]}
            /\ issued' = issued + 1
    /\ applied' = IF r.ok THEN applied + 1 ELSE applied
    /\ removed' = IF r.ok THEN removed \cup {r.id} ELSE removed
    /\ UNCHANGED <<Environment, Gateway, activeTab, loading, expenses, budgets,
                   categories, searchTerm, selectedCategory, dialog,
                   arrived, form>>
    /\ Rerender

\* handleDelete after its await: the goals of the closure, filtered.
GoalsList_handleDelete_response(r) ==
    /\ r \in inflight /\ r.stage = "settled"
    /\ r.call = "GoalsList.handleDelete"
    /\ goals' = IF r.ok THEN filterOut(r.snapshot, r.id) ELSE goals
    /\ inflight' = inflight \ {r}
    /\ applied' = IF r.ok THEN applied + 1 ELSE applied
    /\ removed' = IF r.ok THEN removed \cup {r.id} ELSE removed
    /\ UNCHANGED <<Environment, Gateway, activeTab, loading, expenses, budgets,
                   categories, searchTerm, selectedCategory, issued, dialog,
                   arrived, form>>
    /\ Rerender

\* The handlers of the increment field with the test amount >= 0.
updateProgress_request_fromZero(id, entry) ==
    /\ activeTab = "goals" /\ ~loading
    /\ \E i \in DOMAIN goals :
          /\ goals[i].id = id
          /\ IF JsGe(entry, Fin(0))
             THEN SendProgress(Request("updateProgress", id, goals,
                                       goals[i].current_amount,
                                       goals[i].current_amount + entry.n))
             ELSE UNCHANGED <<inflight, issued>>
    /\ UNCHANGED <<Environment, Gateway, activeTab, loading, expenses, budgets,
                   goals, categories, searchTerm, selectedCategory, applied,
                   removed, dialog,
                   arrived, form>>
    /\ Rerender

\* Enter or the plus button of a goal card: updateProgress is called with
\* the card's current_amount plus the entry when the entry is above 0.
updateProgress_request(id, entry) ==
    /\ activeTab = "goals" /\ ~loading
    /\ \E i \in DOMAIN goals :
          /\ goals[i].id = id
          /\ IF JsGt(entry, Fin(0))
             THEN SendProgress(Request("updateProgress", id, goals,
                                       goals[i].current_amount,
                                       goals[i].current_amount + entry.n))
             ELSE UNCHANGED <<inflight, issued>>
    /\ UNCHANGED <<Environment, Gateway, activeTab, loading, expenses, budgets,
                   goals, categories, searchTerm, selectedCategory, applied,
                   removed, dialog,
                   arrived, form>>
    /\ Rerender

\* updateProgress after its await: the goals of the closure, mapped.
updateProgress_response(r) ==
    /\ r \in inflight /\ r.stage = "settled" /\ r.call = "updateProgress"
    /\ goals' = IF r.ok THEN mapCurrentAmount(r.snapshot, r.id, r.newAmount)
                ELSE goals
    /\ inflight' = inflight \ {r}
    /\ applied' = IF r.ok THEN applied + 1 ELSE applied
    /\ UNCHANGED <<Environment, Gateway, activeTab, loading, expenses, budgets,
                   categories, searchTerm, selectedCategory, issued, removed,
                   dialog,
                   arrived, form>>
    /\ Rerender

----------------------------------------------------------------------------
(* A view that has just mounted: its effect has sent the view's loads,     *)
(* which are not counted in issued.                                        *)

\* The request number n of the mount effect.
MountRequest(n, call) ==
    [rid |-> -n, call |-> call, id |-> "", snapshot |-> <<>>, base |-> 0,
     newAmount |-> 0, row |-> None, epoch |-> 0, stage |-> "sent",
     ok |-> FALSE, data |-> <<>>]

Mounted(tab, requests) ==
    /\ tz = 0
    /\ now = Afternoon
    /\ activeTab = tab
    /\ loading = TRUE
    /\ expenses = <<>>
    /\ budgets = <<>>
    /\ goals = <<>>
    /\ categories = <<>>
    /\ searchTerm = <<>>
    /\ selectedCategory = ""
    /\ screen = Render(tab, TRUE, <<>>, <<>>, <<>>, <<>>, "", now, tz)
    /\ inflight = requests
    /\ issued = 0
    /\ applied = 0
    /\ removed = {}
    /\ dialog = None
    /\ arrived = None
    /\ form = None
    /\ user = Principal

----------------------------------------------------------------------------
(* The goals view of a principal with one goal, and the progress the user  *)
(* adds to it.                                                             *)

InitProgress ==
    /\ db_expenses = {}
    /\ db_budgets = {}
    /\ db_goals = { g \in GoalPool : g.id = "g1" }
    /\ Mounted("goals", { MountRequest(0, "loadGoals") })

NextProgress ==
    \/ GoalsList_loadGoals_request
    \/ \E id \in Ids(goals), entry \in Entries : updateProgress_request(id, entry)
    \/ \E r \in inflight : Gateway_selectGoals(r)
    \/ \E r \in inflight : Gateway_updateGoal(r)
    \/ \E r \in inflight : GoalsList_loadGoals_response(r)
    \/ \E r \in inflight : updateProgress_response(r)

SpecProgress == InitProgress /\ [][NextProgress]_vars

----------------------------------------------------------------------------
(* Any of the three list views, just mounted, of a principal with two      *)
(* expenses, two budgets and two goals: its loads, its deletes and the     *)
(* effect run again.                                                       *)

StoredExpenses == { e \in ExpensePool : e.id \in {"e1", "e2"} }
StoredBudgets  == { b \in BudgetPool : b.id \in {"b1", "b3"} }
StoredGoals    == { g \in GoalPool : g.id \in {"g1", "g6"} }

\* The loads the effect of a view sends when the view mounts.
MountRequests(tab) ==
    CASE tab = "expenses"  -> { MountRequest(1, "ExpensesList.loadExpenses"),
                                MountRequest(0, "loadCategories") }
      [] tab = "budgets"   -> { MountRequest(1, "loadBudgets"),
                                MountRequest(0, "BudgetsList.loadExpenses") }
      [] tab = "goals"     -> { MountRequest(0, "loadGoals") }
      [] tab = "dashboard" -> { MountRequest(0, "loadDashboardData") }

InitViews ==
    /\ db_expenses = StoredExpenses
    /\ db_budgets = StoredBudgets
    /\ db_goals = StoredGoals
    /\ \E tab \in {"expenses", "budgets", "goals"} :
          Mounted(tab, MountRequests(tab))

NextViews ==
    \/ BudgetsList_useEffect
    \/ ExpensesList_useEffect
    \/ GoalsList_loadGoals_request
    \/ \E id \in Ids(budgets), confirmed \in BOOLEAN :
          BudgetsList_handleDelete_request(id, confirmed)
    \/ \E id \in Ids(expenses), confirmed \in BOOLEAN :
          ExpensesList_handleDelete_request(id, confirmed)
    \/ \E id \in Ids(goals), confirmed \in BOOLEAN :
          GoalsList_handleDelete_request(id, confirmed)
    \/ \E r \in inflight : Gateway_selectExpenses(r)
    \/ \E r \in inflight : Gateway_selectCategories(r)
    \/ \E r \in inflight : Gateway_selectBudgets(r)
    \/ \E r \in inflight : Gateway_selectGoals(r)
    \/ \E r \in inflight : Gateway_deleteExpense(r)
    \/ \E r \in inflight : Gateway_deleteBudget(r)
    \/ \E r \in inflight : Gateway_deleteGoal(r)
    \/ \E r \in inflight : BudgetsList_loadBudgets_response(r)
    \/ \E r \in inflight : BudgetsList_loadExpenses_response(r)
    \/ \E r \in inflight : BudgetsList_handleDelete_response(r)
    \/ \E r \in inflight : ExpensesList_loadExpenses_response(r)
    \/ \E r \in inflight : ExpensesList_loadCategories_response(r)
    \/ \E r \in inflight : ExpensesList_handleDelete_response(r)
    \/ \E r \in inflight : GoalsList_loadGoals_response(r)
    \/ \E r \in inflight : GoalsList_handleDelete_response(r)

SpecViews == InitViews /\ [][NextViews]_vars

----------------------------------------------------------------------------
(* Properties.  They are stated over calendar dates and exact sums, not    *)
(* over the operators of the views.                                        *)

\* The sum of the amounts of the records of s at the indices in I.
RECURSIVE SumAt(_, _)
SumAt(s, I) ==
    IF I = {} THEN 0
    ELSE LET i == CHOOSE x \in I : TRUE IN s[i].amount + SumAt(s, I \ {i})

\* The sum of the amounts of the records of s that satisfy P.
SumWhere(s, P(_)) == SumAt(s, { i \in DOMAIN s : P(s[i]) })

\* The expense is of the budget's category and dated within the budget's
\* window, both ends included.
InBudgetWindow(expense, budget) ==
    /\ expense.category_id = budget.category_id
    /\ budget.start_date <= expense.date
    /\ expense.date <= budget.end_date

\* The cards of the budgets view are on screen.
BudgetCardsShown == activeTab = "budgets" /\ ~loading

\* C1: in the budgets view, the spent of every budget is the sum of the
\* amounts of exactly the expenses of the budget's category dated from
\* start_date to end_date, both included.
C1_BudgetSpentIsWindowSum ==
    BudgetCardsShown =>
        /\ Len(screen.budgetCards) = Len(budgets)
        /\ \A i \in DOMAIN budgets :
              screen.budgetCards[i].spent =
                  SumWhere(expenses, LAMBDA e : InBudgetWindow(e, budgets[i]))

\* C1 witness: budget b3 (category c8, 15 March to 15 April) is shown with
\* the expense of 20 March counted, and the expense of its category of
\* 20 February and an expense of another category in the window left out.
C1_Witness ==
    /\ BudgetCardsShown
    /\ \E i \in DOMAIN budgets :
          /\ budgets[i].id = "b3"
          /\ screen.budgetCards[i].spent = 20
    /\ { expenses[j].id : j \in DOMAIN expenses } = {"e1", "e3", "e5"}

\* Both variants of budgetProgress, as <<budget amount, progress record>>
\* pairs: the rows of the dashboard's chart and the cards of the budgets view.
ProgressShown ==
    { <<budgets[i].amount, screen.budgetProgress[i]>> :
        i \in DOMAIN screen.budgetProgress }
    \cup { <<budgets[i].amount, screen.budgetCards[i]>> :
             i \in DOMAIN screen.budgetCards }

\* C2: in both variants isOverBudget is true whenever spent > amount; a
\* budget of 100 with 120 spent shows spent 120, percentage 100,
\* isOverBudget true, remaining 0.
C2_OverBudgetWhenSpentExceedsAmount ==
    \A p \in ProgressShown :
        /\ p[2].spent > p[1] => p[2].isOverBudget
        /\ (p[1] = 100 /\ p[2].spent = 120) =>
              /\ p[2].percentage = Fin(100)
              /\ p[2].isOverBudget
              /\ p[2].remaining = 0

\* x lies in the closed range from 0 to 100.
InPercentRange(x) == JsGe(x, Fin(0)) /\ JsGe(Fin(100), x)

\* spent / amount * 100 held to the range from 0 to 100, for amount # 0.
ClampedPercentage(spent, amount) ==
    LET raw == IF amount > 0 THEN Frac(spent * 100, amount)
               ELSE Frac(-(spent * 100), -amount)
    IN  IF JsLt(raw, Fin(0)) THEN Fin(0)
        ELSE IF JsGt(raw, Fin(100)) THEN Fin(100) ELSE raw

\* C3: in both variants the percentage is spent / amount * 100 clamped to
\* [0, 100] and remaining is max(0, amount - spent): the percentage is never
\* below 0 or above 100 and remaining is never negative.
C3_PercentageClampedRemainingFloored ==
    \A p \in ProgressShown :
        /\ InPercentRange(p[2].percentage)
        /\ p[1] # 0 => JsEq(p[2].percentage, ClampedPercentage(p[2].spent, p[1]))
        /\ p[2].remaining = IF p[1] - p[2].spent > 0 THEN p[1] - p[2].spent ELSE 0
        /\ p[2].remaining >= 0

\* Today: the local calendar day of the instant the view is rendered at.
Today == LocalDay(now, tz)

\* The calendar date is in the month and year of today.
InMonthOfToday(date) ==
    /\ CivilFromDays(date)[1] = CivilFromDays(Today)[1]
    /\ CivilFromDays(date)[2] = CivilFromDays(Today)[2]

\* The expense is of the budget's category and dated in the current month.
InBudgetMonth(expense, budget) ==
    /\ expense.category_id = budget.category_id
    /\ InMonthOfToday(expense.date)

\* On the dashboard the spent of every budget is the sum of the amounts of
\* the expenses of its category dated in the current calendar month and year.
DashboardSpentIsMonthSum ==
    activeTab = "dashboard" =>
        \A i \in DOMAIN budgets :
            screen.budgetProgress[i].spent =
                SumWhere(expenses, LAMBDA e : InBudgetMonth(e, budgets[i]))

\* The two variants give different spent values for the same budget and
\* expenses whenever the budget's window and the current month differ on an
\* expense of the budget's category.
VariantsDifferWhenWindowsDiffer ==
    activeTab = "dashboard" =>
        \A i \in DOMAIN budgets :
            (\E j \in DOMAIN expenses :
                InBudgetWindow(expenses[j], budgets[i])
                    # InBudgetMonth(expenses[j], budgets[i]))
            => screen.budgetProgress[i].spent
                  # BudgetsList_getBudgetProgress(budgets[i], expenses).spent

\* C4: on the dashboard the spent of every budget is the sum of the amounts
\* of the expenses of its category dated in the current calendar month and
\* year, whatever the budget's own dates, and the spent of the budgets view
\* differs from it whenever the two windows differ on a matching expense.
C4_DashboardSpentIsMonthSum ==
    /\ DashboardSpentIsMonthSum
    /\ VariantsDifferWhenWindowsDiffer

\* C5: monthlySpend is the sum of the amounts of exactly the expenses dated
\* in the calendar month and year of today, and 0 for the empty collection.
C5_MonthlySpendIsMonthSum ==
    activeTab = "dashboard" =>
        /\ screen.monthlySpending =
              SumWhere(expenses, LAMBDA e : InMonthOfToday(e.date))
        /\ expenses = <<>> => screen.monthlySpending = 0

\* The name and colour an expense is grouped under: those of its category,
\* or "Other" and gray when the expense has no resolved category.
ResolvedName(expense) ==
    IF expense.category = None THEN "Other" ELSE expense.category[1].name
ResolvedColor(expense) ==
    IF expense.category = None THEN "#6B7280" ELSE expense.category[1].color

\* The index of the first expense of s grouped under name.
FirstOfName(s, name) ==
    CHOOSE i \in DOMAIN s :
        /\ ResolvedName(s[i]) = name
        /\ \A j \in 1..(i - 1) : ResolvedName(s[j]) # name

\* C6: spendByCategory has one entry per distinct resolved category name;
\* its value is the sum of the amounts of all expenses of that name,
\* whatever their date; an expense with no resolved category goes under
\* "Other" with colour #6B7280; an entry's colour is the colour of the first
\* expense met with its name.
C6_SpendByCategoryGroups ==
    activeTab = "dashboard" =>
        LET out == screen.expensesByCategory IN
        /\ \A i, j \in DOMAIN out : out[i].name = out[j].name => i = j
        /\ { out[i].name : i \in DOMAIN out }
              = { ResolvedName(expenses[j]) : j \in DOMAIN expenses }
        /\ \A i \in DOMAIN out :
              /\ out[i].value =
                    SumWhere(expenses, LAMBDA e : ResolvedName(e) = out[i].name)
              /\ out[i].color =
                    ResolvedColor(expenses[FirstOfName(expenses, out[i].name)])
        /\ \A j \in DOMAIN expenses :
              expenses[j].category = None =>
                 \E i \in DOMAIN out :
                    out[i].name = "Other" /\ out[i].color = "#6B7280"

\* C6 witness: the dashboard shows an expense of this March, one of
\* February of category Other and one of March 2023 with no resolved
\* category; the last two are pooled under "Other".
C6_Witness ==
    /\ activeTab = "dashboard"
    /\ { expenses[j].id : j \in DOMAIN expenses } = {"e1", "e3", "e4"}
    /\ { <<screen.expensesByCategory[i].name, screen.expensesByCategory[i].value,
           screen.expensesByCategory[i].color>> :
           i \in DOMAIN screen.expensesByCategory }
          = { <<"Food & Dining", 50, "#EF4444">>, <<"Other", 40, "#6B7280">> }

\* The sum of the values of the entries of a category distribution.
RECURSIVE SumValues(_)
SumValues(out) ==
    IF out = <<>> THEN 0
    ELSE out[1].value + SumValues(SubSeq(out, 2, Len(out)))

\* C7: for a non-empty collection of expenses all dated within the current
\* month, the values of spendByCategory add up to monthlySpend.
C7_CategoriesPartitionMonth ==
    ( /\ activeTab = "dashboard"
      /\ expenses # <<>>
      /\ \A j \in DOMAIN expenses : InMonthOfToday(expenses[j].date) )
    => SumValues(screen.expensesByCategory) = screen.monthlySpending

\* Two characters are the same letter, whatever their case.
CasePairs == { <<"C","c">>, <<"O","o">>, <<"F","f">>,
               <<"T","t">>, <<"E","e">>, <<"A","a">> }
SameLetter(a, b) == a = b \/ <<a, b>> \in CasePairs \/ <<b, a>> \in CasePairs

\* term occurs in text, case ignored.
ContainsIgnoringCase(text, term) ==
    \E o \in 0..(Len(text) - Len(term)) :
        \A k \in 1..Len(term) : SameLetter(text[o + k], term[k])

\* The expense is to be kept by filterExpenses.
Kept(expense, term, category) ==
    /\ \/ ContainsIgnoringCase(expense.description, term)
       \/ /\ expense.notes # None
          /\ ContainsIgnoringCase(expense.notes[1], term)
    /\ category = "" \/ expense.category_id = category

\* The indices of the kept expenses, in increasing order.
RECURSIVE KeptBelow(_, _, _, _)
KeptBelow(s, n, term, category) ==
    IF n = 0 THEN <<>>
    ELSE IF Kept(s[n], term, category)
         THEN Append(KeptBelow(s, n - 1, term, category), s[n])
         ELSE KeptBelow(s, n - 1, term, category)

\* C10: filterExpenses keeps an expense exactly when (its description, or
\* its notes when it has notes, contains the search term, case ignored) and
\* (the category filter is empty or is the expense's category_id); with both
\* filters empty every expense is kept.
C10_FilterKeepsExactlyMatches ==
    activeTab = "expenses" =>
        /\ screen.filteredExpenses
              = KeptBelow(expenses, Len(expenses), searchTerm, selectedCategory)
        /\ (searchTerm = <<>> /\ selectedCategory = "")
              => screen.filteredExpenses = expenses

\* C10 witness: with the term "cO" and category c1 selected, the expense
\* that matches through its notes alone is kept next to the one that matches
\* through its description, and an expense of another category is dropped.
C10_Witness ==
    /\ activeTab = "expenses"
    /\ searchTerm = <<"c","O">>
    /\ selectedCategory = "c1"
    /\ { expenses[j].id : j \in DOMAIN expenses } = {"e1", "e2", "e5"}
    /\ { screen.filteredExpenses[j].id : j \in DOMAIN screen.filteredExpenses }
          = {"e1", "e2"}

\* The cards of the goals view are on screen.
GoalCardsShown == activeTab = "goals" /\ ~loading

\* max(0, n / d) for integers n and d > 0.
PaceOf(n, d) == IF n > 0 THEN Frac(n, d) ELSE Fin(0)

\* The three paces of a card are 0.
NoPace(card) ==
    /\ JsEq(card.recommendations.daily, Fin(0))
    /\ JsEq(card.recommendations.weekly, Fin(0))
    /\ JsEq(card.recommendations.monthly, Fin(0))

\* C8: daysLeft is the number of days from today to the goal's target date;
\* when it is positive, daily = max(0, (target - current) / daysLeft),
\* weekly = max(0, 7 x that quotient), monthly = max(0, 30 x that quotient):
\* a goal of 1000 with 200 saved and due ten days after today gets 80, 560
\* and 2400, and a goal whose current amount exceeds its target gets 0.
C8_PaceFromDaysToTargetDate ==
    GoalCardsShown =>
        \A i \in DOMAIN goals :
            LET goal == goals[i]
                card == screen.goalCards[i]
                days == goal.target_date - Today
                left == goal.target_amount - goal.current_amount
            IN  /\ card.daysLeft = days
                /\ days > 0 =>
                      /\ JsEq(card.recommendations.daily, PaceOf(left, days))
                      /\ JsEq(card.recommendations.weekly, PaceOf(7 * left, days))
                      /\ JsEq(card.recommendations.monthly, PaceOf(30 * left, days))
                /\ (goal.target_amount = 1000 /\ goal.current_amount = 200
                      /\ days = 10) =>
                      /\ JsEq(card.recommendations.daily, Fin(80))
                      /\ JsEq(card.recommendations.weekly, Fin(560))
                      /\ JsEq(card.recommendations.monthly, Fin(2400))
                /\ goal.current_amount > goal.target_amount => NoPace(card)

\* C9 as stated: with daysLeft = 0 the three paces are 0; with daysLeft < 0
\* they are 0 and the view reports the goal overdue by abs(daysLeft) days.
C9_OverdueAlwaysReported ==
    GoalCardsShown =>
        \A i \in DOMAIN goals :
            LET card == screen.goalCards[i]
            IN  /\ card.daysLeft = 0 => NoPace(card)
                /\ card.daysLeft < 0 =>
                      /\ NoPace(card)
                      /\ card.panel = "overdue"
                      /\ card.overdueDays = -card.daysLeft

\* The goal's progress current_amount / target_amount x 100 is at least 100.
ProgressComplete(goal) ==
    IF goal.target_amount > 0 THEN goal.current_amount >= goal.target_amount
    ELSE IF goal.target_amount < 0 THEN goal.current_amount <= goal.target_amount
    ELSE goal.current_amount > 0

\* C9, amended: with daysLeft = 0 the three paces are 0; with daysLeft < 0
\* they are 0 and the view reports the goal overdue by abs(daysLeft) days,
\* unless the goal's progress is at least 100 %: then it shows the goal as
\* completed and reports no overdue days.
C9_OverdueReportedUnlessCompleted ==
    GoalCardsShown =>
        \A i \in DOMAIN goals :
            LET card == screen.goalCards[i]
            IN  /\ card.daysLeft = 0 => NoPace(card)
                /\ card.daysLeft < 0 =>
                      /\ NoPace(card)
                      /\ IF ProgressComplete(goals[i])
                         THEN card.panel = "completed"
                         ELSE /\ card.panel = "overdue"
                              /\ card.overdueDays = -card.daysLeft

\* C9 witness: two goals three days past their target date are shown, one
\* short of its target and reported 3 days overdue, one completed.
C9_Witness ==
    /\ GoalCardsShown
    /\ \E i, j \in DOMAIN goals :
          /\ goals[i].id = "g3"
          /\ screen.goalCards[i].daysLeft = -3
          /\ screen.goalCards[i].panel = "overdue"
          /\ screen.goalCards[i].overdueDays = 3
          /\ NoPace(screen.goalCards[i])
          /\ goals[j].id = "g4"
          /\ screen.goalCards[j].daysLeft = -3
          /\ screen.goalCards[j].panel = "completed"

----------------------------------------------------------------------------
(* Requests in flight.                                                     *)

\* The progress updates whose continuation has not run yet.
UpdatesInFlight == { r \in inflight : r.call = "updateProgress" }

\* The increment an update request was computed with.
Increment(r) == r.newAmount - r.base

\* The gateway answers the request r with success in this step.
ServedNow(r) ==
    /\ r \in inflight /\ r.stage = "sent"
    /\ Settled(r, TRUE, <<>>) \in inflight'

\* The amounts stored for the goal id (none when the goal is not stored).
StoredAmounts(rows, id) == { g.current_amount : g \in { h \in rows : h.id = id } }

\* r2 was submitted after r1 for the same goal while r1's continuation has
\* not run: both are computed from the same in-memory amount c, and a
\* served one leaves c + d1 or c + d2 at the gateway, never c + d1 + d2.
Overwrites(r1, r2) ==
    /\ r1.base = r2.base
    /\ \A r \in {r1, r2} :
          ServedNow(r) =>
              \A stored \in StoredAmounts(db_goals', r.id) :
                  /\ stored \in { r1.base + Increment(r1), r1.base + Increment(r2) }
                  /\ stored # r1.base + Increment(r1) + Increment(r2)

\* C11 as stated: two increments for one goal, the second submitted
\* before the continuation of the first has run, are computed from the same
\* in-memory current_amount c, and the gateway ends with c + d1 or c + d2,
\* never c + d1 + d2.
C11_SecondWriteOverwritesFirst ==
    [][\A r1, r2 \in UpdatesInFlight :
          (r1.id = r2.id /\ r1.rid < r2.rid) => Overwrites(r1, r2)]_vars

\* C11, amended: the same, for two increments between whose submissions
\* no continuation has set the view's goals.
C11_SecondWriteOverwritesFirstOfSameRender ==
    [][\A r1, r2 \in UpdatesInFlight :
          (r1.id = r2.id /\ r1.rid < r2.rid /\ r1.epoch = r2.epoch)
              => Overwrites(r1, r2)]_vars

\* C11 witness: increments of 10 and 20 on a goal holding 200 were both
\* submitted from the same render and both served; the gateway holds 210.
C11_Witness ==
    /\ \E r1, r2 \in UpdatesInFlight :
          /\ r1.rid < r2.rid /\ r1.epoch = r2.epoch
          /\ r1.stage = "settled" /\ r1.ok
          /\ r2.stage = "settled" /\ r2.ok
          /\ r1.base = 200 /\ r1.newAmount = 210
          /\ r2.base = 200 /\ r2.newAmount = 220
    /\ StoredAmounts(db_goals, "g1") = {210}

\* C12: the current_amount stored for a goal never decreases.
C12_StoredAmountNeverDecreases ==
    [][\A g \in db_goals : \A h \in db_goals' :
          g.id = h.id => h.current_amount >= g.current_amount]_vars

----------------------------------------------------------------------------
(* The list views with requests in flight.                                 *)

\* The collection the mounted view lists and deletes from.
ViewCollection ==
    CASE activeTab = "expenses" -> expenses
      [] activeTab = "budgets"  -> budgets
      [] activeTab = "goals"    -> goals
      [] OTHER                  -> <<>>

\* The ids of the rows the mounted view shows when it is not loading.
ShownIds ==
    CASE activeTab = "expenses" -> Ids(screen.filteredExpenses)
      [] activeTab = "budgets"  -> { budgets[i].id :
                                       i \in DOMAIN screen.budgetCards }
      [] activeTab = "goals"    -> { screen.goalCards[i].id :
                                       i \in DOMAIN screen.goalCards }
      [] OTHER                  -> {}

\* C13: a row whose delete has succeeded in the view, and that no reload
\* applied since has returned, is neither in the view's collection nor among
\* the rows the view shows, whatever else was in flight.
C13_DeletedRowStaysAbsent ==
    \A id \in removed : id \notin Ids(ViewCollection) /\ id \notin ShownIds

\* The in-memory collection the continuation of a call sets.
CollectionOf(call) ==
    CASE call \in {"loadGoals", "GoalsList.handleDelete", "updateProgress"}
           -> "goals"
      [] call \in {"loadBudgets", "BudgetsList.handleDelete"}
           -> "budgets"
      [] call \in {"ExpensesList.loadExpenses", "ExpensesList.handleDelete"}
           -> "expenses"
      [] call = "BudgetsList.loadExpenses"
           -> "budgets.expenses"
      [] call = "loadCategories"
           -> "categories"

\* The calls that change rows: the deletes and the progress update.
Mutations ==
    {"GoalsList.handleDelete", "BudgetsList.handleDelete",
     "ExpensesList.handleDelete", "updateProgress"}

\* C14: a delete or a progress update is never outstanding together with an
\* earlier request (delete, update or load) of the same collection, that is,
\* none is sent while an earlier one has not been applied.
C14_MutationsSerialized ==
    \A r1, r2 \in inflight :
        (r1.rid < r2.rid /\ r2.call \in Mutations)
            => CollectionOf(r1.call) # CollectionOf(r2.call)

\* The calls that fetch a collection of a view.
Loads ==
    {"loadGoals", "loadBudgets", "BudgetsList.loadExpenses",
     "ExpensesList.loadExpenses", "loadCategories"}

\* C15: while a fetch of the mounted view is outstanding the view's loading
\* flag is true, so that nothing is derived and rendered from a collection
\* whose fetch has not settled.
C15_LoadingWhileFetching ==
    (\E r \in inflight : r.call \in Loads) => loading

\* The in-memory collection a load stores its rows in.
LoadedInto(call) ==
    CASE call = "loadGoals"      -> goals
      [] call = "loadBudgets"    -> budgets
      [] call = "loadCategories" -> categories
      [] OTHER                   -> expenses

\* The loads whose failed response is applied in this step.
FailedLoadsApplied ==
    { r \in inflight : /\ r.call \in Loads
                       /\ r.stage = "settled" /\ ~r.ok
                       /\ r \notin inflight' }

\* C16: the step that applies the response of a failed read leaves the
\* collection the read loads as it was; in particular it never replaces a
\* non-empty collection with the empty one.
C16_FailedLoadKeepsCollection ==
    [][\A r \in FailedLoadsApplied : LoadedInto(r.call)' = LoadedInto(r.call)]_vars

\* The loads that store data || [] without looking at the error.
UncheckedLoads == {"BudgetsList.loadExpenses", "loadCategories"}

\* The loads whose response is stored in this step.
LoadsStored ==
    { r \in inflight : /\ r.call \in Loads
                       /\ r.stage = "settled"
                       /\ r.ok \/ r.call \in UncheckedLoads
                       /\ r \notin inflight' }

\* C17: the step that stores a load's response leaves the collection equal
\* to the rows of that response, whatever it held and whichever load was
\* sent first, and no step drops a load that has been sent: each one stays
\* in flight until its own response is handled.
C17_LoadReplacesCollection ==
    [][/\ \A r \in LoadsStored : LoadedInto(r.call)' = r.data
       /\ \A r \in inflight :
             (r.call \in Loads /\ r.stage = "sent")
                 => \E s \in inflight' : s.rid = r.rid /\ s.call = r.call]_vars

\* Two loads of the goals view overlapped; g1 was deleted after the load of
\* the mount had been served and after the later load had been stored; the
\* response of the mount's load arrived last, and the view holds its rows.
C17_Witness ==
    /\ activeTab = "goals"
    /\ inflight = {}
    /\ arrived = Some(0)
    /\ { g.id : g \in db_goals } = {"g6"}
    /\ Ids(goals) = {"g1", "g6"}

\* The delete calls of the three list views.
Deletes ==
    {"GoalsList.handleDelete", "BudgetsList.handleDelete",
     "ExpensesList.handleDelete"}

\* The delete requests sent in this step.
DeletesSent ==
    { r \in inflight' : /\ r.call \in Deletes
                        /\ r.stage = "sent"
                        /\ \A s \in inflight : s.rid # r.rid }

\* The user has answered a confirm dialog in this step with Cancel.
Declined ==
    /\ dialog' # dialog
    /\ dialog' # None
    /\ ~dialog'[1].confirmed

\* C20: a step sends a delete request only for the row whose confirm dialog
\* the user has answered with OK in that step, and a step in which the user
\* declines sends nothing and leaves the collections and the gateway as
\* they were.
C20_DeleteOnlyWhenConfirmed ==
    [][/\ \A r \in DeletesSent :
             dialog' = Some([id |-> r.id, confirmed |-> TRUE])
       /\ Declined => UNCHANGED <<inflight, issued, expenses, budgets, goals,
                                  Gateway>>]_vars

\* The user has declined the delete of the budget b1: nothing has been sent
\* and b1 is still listed.
C20_Witness ==
    /\ activeTab = "budgets"
    /\ dialog = Some([id |-> "b1", confirmed |-> FALSE])
    /\ issued = 0
    /\ \A r \in inflight : r.call \notin Deletes
    /\ "b1" \in Ids(budgets)
    /\ "b1" \in { b.id : b \in db_budgets }

----------------------------------------------------------------------------
(* The forms of the list views.                                            *)

\* Date.prototype.toISOString().split('T')[0]: the UTC calendar day.
toISODate(instant) == instant \div 24

\* The local time of day of an instant, which setDate and setMonth keep.
LocalHour(instant, zone) == (instant + zone) % 24

\* The instant with the local calendar day localDay and the local time of
\* day of instant.
AtLocalDay(instant, zone, localDay) ==
    localDay * 24 + LocalHour(instant, zone) - zone

\* endDate.setDate(startDate.getDate() + n), both dates being the instant:
\* the day of the month is counted from the first of the local month.
setDate(instant, zone, n) ==
    LET civil == CivilFromDays(LocalDay(instant, zone))
    IN  AtLocalDay(instant, zone,
                   DaysFromCivil(civil[1], civil[2], 1) + (civil[3] + n) - 1)

\* endDate.setMonth(startDate.getMonth() + 1): the same day of the month in
\* the next local month; a day that month does not have runs over into the
\* month after it.
setMonth(instant, zone) ==
    LET civil == CivilFromDays(LocalDay(instant, zone))
        year  == IF civil[2] = 12 THEN civil[1] + 1 ELSE civil[1]
        month == IF civil[2] = 12 THEN 1 ELSE civil[2] + 1
    IN  AtLocalDay(instant, zone, DaysFromCivil(year, month, 1) + civil[3] - 1)

\* The instants a form is submitted at: 2024-03-15 at 14:00Z and 2024-01-31
\* at 12:00Z.
EndOfJanuary == ParseDate(DaysFromCivil(2024, 1, 31)) + 12
FormInstants == {Afternoon, EndOfJanuary}

\* What the user may enter as an amount: the inputs are required number
\* inputs with no minimum.
FormAmounts == {30, -5}

\* The ids the gateway gives to inserted rows, by request.
NewIds == <<"n1", "n2", "n3", "n4", "n5", "n6">>

\* The Add button of a list view: setShowForm(true).
setShowForm ==
    /\ activeTab \in {"expenses", "budgets", "goals"}
    /\ ~loading
    /\ form = None
    /\ form' = Some([saving |-> FALSE])
    /\ UNCHANGED <<Environment, Gateway, activeTab, loading, expenses, budgets,
                   goals, categories, searchTerm, selectedCategory, screen,
                   inflight, issued, applied, removed, dialog, arrived>>

\* The close and the Cancel buttons of a form: onClose.
onClose ==
    /\ form # None
    /\ form' = None
    /\ UNCHANGED <<Environment, Gateway, activeTab, loading, expenses, budgets,
                   goals, categories, searchTerm, selectedCategory, screen,
                   inflight, issued, applied, removed, dialog, arrived>>

\* handleSubmit of a form up to its await: the saving flag and the insert.
Submit(call, row) ==
    /\ form = Some([saving |-> FALSE])
    /\ issued + 1 < MaxIssued
    /\ form' = Some([saving |-> TRUE])
    /\ inflight' = inflight \cup
                     {[Request(call, "", <<>>, 0, 0) EXCEPT !.row = Some(row)]}
    /\ issued' = issued + 1
    /\ UNCHANGED <<Environment, Gateway, activeTab, loading, expenses, budgets,
                   goals, categories, searchTerm, selectedCategory, screen,
                   applied, removed, dialog, arrived>>

\* handleSubmit of a form that calls onClose before onSave: the reload is
\* sent with the form closed.
Saved_closeThenSave(r, reload) ==
    /\ r \in inflight /\ r.stage = "settled"
    /\ IF r.ok
       THEN /\ loading' = TRUE
            /\ inflight' = (inflight \ {r})
                              \cup {[Request(reload, NewIds[r.rid], None, 0, 0)
                                        EXCEPT !.row = r.row]}
            /\ issued' = issued + 1
            /\ form' = None
       ELSE /\ inflight' = inflight \ {r}
            /\ form' = IF form = None THEN None ELSE Some([saving |-> FALSE])
            /\ UNCHANGED <<loading, issued>>
    /\ UNCHANGED <<Environment, Gateway, activeTab, expenses, budgets, goals,
                   categories, searchTerm, selectedCategory, applied, removed,
                   dialog, arrived>>
    /\ Rerender

\* handleSubmit of a form after its await: onSave (the reload of the view)
\* and onClose when the insert succeeded, and the saving flag cleared. The
\* reload is tagged with the insert it follows: the id the gateway gave the
\* row and the row that was sent; its snapshot is the form as onSave finds
\* it, before onClose.
Saved(r, reload) ==
    /\ r \in inflight /\ r.stage = "settled"
    /\ IF r.ok
       THEN /\ loading' = TRUE
            /\ inflight' = (inflight \ {r})
                              \cup {[Request(reload, NewIds[r.rid], form, 0, 0)
                                        EXCEPT !.row = r.row]}
            /\ issued' = issued + 1
            /\ form' = None
       ELSE /\ inflight' = inflight \ {r}
            /\ form' = IF form = None THEN None ELSE Some([saving |-> FALSE])
            /\ UNCHANGED <<loading, issued>>
    /\ UNCHANGED <<Environment, Gateway, activeTab, expenses, budgets, goals,
                   categories, searchTerm, selectedCategory, applied, removed,
                   dialog, arrived>>
    /\ Rerender

\* The gateway serves an insert: the row is stored under a new id, or the
\* insert fails.
Inserted(r, stored) ==
    \/ /\ stored
       /\ Answer(r, TRUE, <<>>)
    \/ /\ UNCHANGED Gateway
       /\ Answer(r, FALSE, <<>>)

\* ExpenseForm.handleSubmit that takes the owner of the row from a field of
\* the form.
ExpenseForm_handleSubmit_request_ownerFromField(amount) ==
    /\ activeTab = "expenses"
    /\ Submit("ExpenseForm.handleSubmit",
              [user_id     |-> "c1",
               amount      |-> amount,
               description |-> <<"t", "e", "a">>,
               category_id |-> "c1",
               date        |-> toISODate(now),
               notes       |-> None])

\* ExpenseForm.handleSubmit up to its await.
ExpenseForm_handleSubmit_request(amount) ==
    /\ activeTab = "expenses"
    /\ Submit("ExpenseForm.handleSubmit",
              [user_id     |-> user,
               amount      |-> amount,
               description |-> <<"t", "e", "a">>,
               category_id |-> "c1",
               date        |-> toISODate(now),
               notes       |-> None])

\* from('expenses').insert(...) is served.
Gateway_insertExpense(r) ==
    /\ r \in inflight /\ r.stage = "sent"
    /\ r.call = "ExpenseForm.handleSubmit"
    /\ Inserted(r, /\ db_expenses' = db_expenses \cup
                        {[id          |-> NewIds[r.rid],
                          category_id |-> r.row[1].category_id,
                          amount      |-> r.row[1].amount,
                          description |-> r.row[1].description,
                          notes       |-> r.row[1].notes,
                          date        |-> r.row[1].date]}
                  /\ UNCHANGED <<db_budgets, db_goals>>)
    /\ UNCHANGED <<Environment, activeTab, loading, expenses, budgets, goals,
                   categories, searchTerm, selectedCategory, screen, issued,
                   applied, removed, dialog, arrived, form>>

\* ExpenseForm.handleSubmit after its await.
ExpenseForm_handleSubmit_response(r) ==
    /\ r.call = "ExpenseForm.handleSubmit"
    /\ Saved(r, "ExpensesList.loadExpenses")

\* BudgetForm.handleSubmit up to its await: the dates are computed from the
\* instant of the submit.
BudgetForm_handleSubmit_request(amount, period) ==
    /\ activeTab = "budgets"
    /\ Submit("BudgetForm.handleSubmit",
              [user_id     |-> user,
               category_id |-> "c1",
               amount      |-> amount,
               period      |-> period,
               start_date  |-> toISODate(now),
               end_date    |-> toISODate(IF period = "weekly"
                                         THEN setDate(now, tz, 7)
                                         ELSE setMonth(now, tz))])

\* from('budgets').insert(...) is served.
Gateway_insertBudget(r) ==
    /\ r \in inflight /\ r.stage = "sent"
    /\ r.call = "BudgetForm.handleSubmit"
    /\ Inserted(r, /\ db_budgets' = db_budgets \cup
                        {[id          |-> NewIds[r.rid],
                          category_id |-> r.row[1].category_id,
                          amount      |-> r.row[1].amount,
                          period      |-> r.row[1].period,
                          start_date  |-> r.row[1].start_date,
                          end_date    |-> r.row[1].end_date]}
                  /\ UNCHANGED <<db_expenses, db_goals>>)
    /\ UNCHANGED <<Environment, activeTab, loading, expenses, budgets, goals,
                   categories, searchTerm, selectedCategory, screen, issued,
                   applied, removed, dialog, arrived, form>>

\* BudgetForm.handleSubmit after its await.
BudgetForm_handleSubmit_response(r) ==
    /\ r.call = "BudgetForm.handleSubmit"
    /\ Saved(r, "loadBudgets")

\* GoalForm.handleSubmit up to its await.
GoalForm_handleSubmit_request(amount) ==
    /\ activeTab = "goals"
    /\ Submit("GoalForm.handleSubmit",
              [user_id        |-> user,
               title          |-> <<"c", "a", "r">>,
               target_amount  |-> amount,
               target_date    |-> toISODate(now) + 30,
               current_amount |-> 0])

\* from('savings_goals').insert(...) is served.
Gateway_insertGoal(r) ==
    /\ r \in inflight /\ r.stage = "sent"
    /\ r.call = "GoalForm.handleSubmit"
    /\ Inserted(r, /\ db_goals' = db_goals \cup
                        {[id             |-> NewIds[r.rid],
                          target_amount  |-> r.row[1].target_amount,
                          current_amount |-> r.row[1].current_amount,
                          target_date    |-> r.row[1].target_date]}
                  /\ UNCHANGED <<db_expenses, db_budgets>>)
    /\ UNCHANGED <<Environment, activeTab, loading, expenses, budgets, goals,
                   categories, searchTerm, selectedCategory, screen, issued,
                   applied, removed, dialog, arrived, form>>

\* GoalForm.handleSubmit after its await.
GoalForm_handleSubmit_response(r) ==
    /\ r.call = "GoalForm.handleSubmit"
    /\ Saved(r, "loadGoals")

----------------------------------------------------------------------------
(* A list view of either principal, loaded, at either instant and in any   *)
(* zone: the form is opened and submitted, and the view reloads.           *)

\* The view of a tab once its loads have been stored.
Loaded(tab) ==
    /\ activeTab = tab
    /\ loading = FALSE
    /\ \E rows \in SelectExpensesByDate :
          expenses = IF tab = "expenses" THEN rows ELSE <<>>
    /\ \E rows \in SelectBudgetsByCreated :
          budgets = IF tab = "budgets" THEN rows ELSE <<>>
    /\ \E rows \in SelectGoalsByTargetDate :
          goals = IF tab = "goals" THEN rows ELSE <<>>
    /\ categories = IF tab = "expenses" THEN SelectCategories ELSE <<>>
    /\ searchTerm = <<>>
    /\ selectedCategory = ""
    /\ screen = Render(tab, FALSE, expenses, budgets, goals, <<>>, "", now, tz)
    /\ inflight = {}
    /\ issued = 0
    /\ applied = 0
    /\ removed = {}
    /\ dialog = None
    /\ arrived = None
    /\ form = None

InitForms ==
    /\ tz \in Zones
    /\ now \in FormInstants
    /\ user \in Principals
    /\ db_expenses = {}
    /\ db_budgets = { b \in BudgetPool : b.id = "b1" }
    /\ db_goals = {}
    /\ \E tab \in {"expenses", "budgets", "goals"} : Loaded(tab)

NextForms ==
    \/ setShowForm
    \/ onClose
    \/ \E amount \in FormAmounts : ExpenseForm_handleSubmit_request(amount)
    \/ \E amount \in FormAmounts, period \in {"weekly", "monthly"} :
          BudgetForm_handleSubmit_request(amount, period)
    \/ \E amount \in FormAmounts : GoalForm_handleSubmit_request(amount)
    \/ \E r \in inflight : Gateway_insertExpense(r)
    \/ \E r \in inflight : Gateway_insertBudget(r)
    \/ \E r \in inflight : Gateway_insertGoal(r)
    \/ \E r \in inflight : ExpenseForm_handleSubmit_response(r)
    \/ \E r \in inflight : BudgetForm_handleSubmit_response(r)
    \/ \E r \in inflight : GoalForm_handleSubmit_response(r)
    \/ \E r \in inflight : Gateway_selectExpenses(r)
    \/ \E r \in inflight : Gateway_selectBudgets(r)
    \/ \E r \in inflight : Gateway_selectGoals(r)
    \/ \E r \in inflight : ExpensesList_loadExpenses_response(r)
    \/ \E r \in inflight : BudgetsList_loadBudgets_response(r)
    \/ \E r \in inflight : GoalsList_loadGoals_response(r)

SpecForms == InitForms /\ [][NextForms]_vars

----------------------------------------------------------------------------
(* The forms.                                                              *)

\* The insert calls of the three forms.
Inserts ==
    {"ExpenseForm.handleSubmit", "BudgetForm.handleSubmit",
     "GoalForm.handleSubmit"}

\* C18: every insert request of the expense, budget and goal forms carries
\* the id of the authenticated principal as user_id, whatever was entered
\* into the form.
C18_InsertCarriesPrincipal ==
    \A r \in inflight : r.call \in Inserts => r.row[1].user_id = user

\* The budget form of the principal u2 has sent its insert.
C18_Witness ==
    /\ user = "u2"
    /\ \E r \in inflight : /\ r.call = "BudgetForm.handleSubmit"
                           /\ r.stage = "sent"
                           /\ r.row[1].user_id = "u2"

\* The day one calendar month after a day: the same day of the next month,
\* or the last day of that month when it is shorter.
AddCalendarMonth(day) ==
    LET civil  == CivilFromDays(day)
        year   == IF civil[2] = 12 THEN civil[1] + 1 ELSE civil[1]
        month  == IF civil[2] = 12 THEN 1 ELSE civil[2] + 1
        first  == DaysFromCivil(year, month, 1)
        after  == IF month = 12 THEN DaysFromCivil(year + 1, 1, 1)
                                ELSE DaysFromCivil(year, month + 1, 1)
        length == after - first
    IN  first + (IF civil[3] > length THEN length ELSE civil[3]) - 1

\* The dates of a budget are a week or a calendar month apart, by its period.
BudgetDatesAgree(b) ==
    b.end_date = IF b.period = "weekly" THEN b.start_date + 7
                                        ELSE AddCalendarMonth(b.start_date)

\* C19: after every step each budget the gateway holds has its end_date a
\* week (weekly) or a calendar month (monthly) after its start_date, a
\* budget stored in the step has the day of the insert as start_date, and a
\* budget held before the step keeps both dates.
C19_BudgetDatesFollowPeriod ==
    [][\A b \in db_budgets' :
          /\ BudgetDatesAgree(b)
          /\ (\A a \in db_budgets : a.id # b.id) => b.start_date = toISODate(now)
          /\ \A a \in db_budgets :
                a.id = b.id => /\ a.start_date = b.start_date
                               /\ a.end_date = b.end_date]_vars

\* The amount an insert request carries: target_amount for a goal.
InsertAmount(r) ==
    IF r.call = "GoalForm.handleSubmit" THEN r.row[1].target_amount
                                        ELSE r.row[1].amount

\* C21: every insert request of the expense, budget and goal forms carries
\* an amount (a target_amount for a goal) above 0.
C21_InsertAmountPositive ==
    \A r \in inflight : r.call \in Inserts => InsertAmount(r) > 0

----------------------------------------------------------------------------
(* The goals view of a principal with two goals, just mounted: its loads,  *)
(* its deletes and the progress the user adds, MaxIssued requests in all.  *)

InitGoalsList ==
    /\ db_expenses = {}
    /\ db_budgets = {}
    /\ db_goals = StoredGoals
    /\ Mounted("goals", { MountRequest(0, "loadGoals") })

NextGoalsList ==
    \/ GoalsList_loadGoals_request
    \/ \E id \in Ids(goals), confirmed \in BOOLEAN :
          GoalsList_handleDelete_request(id, confirmed)
    \/ \E id \in Ids(goals), entry \in Entries :
          issued < MaxIssued /\ updateProgress_request(id, entry)
    \/ \E r \in inflight : Gateway_selectGoals(r)
    \/ \E r \in inflight : Gateway_deleteGoal(r)
    \/ \E r \in inflight : Gateway_updateGoal(r)
    \/ \E r \in inflight : GoalsList_loadGoals_response(r)
    \/ \E r \in inflight : GoalsList_handleDelete_response(r)
    \/ \E r \in inflight : updateProgress_response(r)

SpecGoalsList == InitGoalsList /\ [][NextGoalsList]_vars

----------------------------------------------------------------------------
(* Failures.                                                               *)

\* The requests whose failure the view handles in this step.
FailuresHandled ==
    { r \in inflight : r.stage = "settled" /\ ~r.ok /\ r \notin inflight' }

\* The requests sent in this step.
RequestsSent == { r \in inflight' : \A s \in inflight : s.rid # r.rid }

----------------------------------------------------------------------------
(* The sign-in form shown while no principal is signed in. The form's      *)
(* state is held in `form`: its mode, its loading flag and the error it    *)
(* shows. signIn and signUp resolve to an error with a message, or to none.*)

InvalidLoginCredentials == "Invalid login credentials"

IncorrectEmailOrPassword ==
    "Incorrect email or password. Please try again or create an account."

\* The messages a failed signIn or signUp carries.
AuthMessages ==
    { InvalidLoginCredentials, "User already registered", "Email not confirmed" }

SignedOut == ""

\* The toggle under the form switches between sign-in and sign-up.
AuthForm_setIsLogin ==
    /\ form # None
    /\ form' = Some([form[1] EXCEPT !.isLogin = ~form[1].isLogin])
    /\ UNCHANGED <<Environment, Gateway, activeTab, loading, expenses, budgets,
                   goals, categories, searchTerm, selectedCategory, screen,
                   inflight, issued, applied, removed, dialog, arrived>>

\* handleSubmit up to its await: the loading flag is set, the error is
\* cleared and signIn or signUp is called, by the mode of this render.
AuthForm_handleSubmit_request ==
    /\ form # None
    /\ ~form[1].loading
    /\ Send([Request("AuthForm.handleSubmit", "", <<>>, 0, 0)
                EXCEPT !.row = Some([isLogin |-> form[1].isLogin])])
    /\ form' = Some([form[1] EXCEPT !.loading = TRUE, !.error = ""])
    /\ UNCHANGED <<Environment, Gateway, activeTab, loading, expenses, budgets,
                   goals, categories, searchTerm, selectedCategory, screen,
                   applied, removed, dialog, arrived>>

\* signIn or signUp resolves, without an error or with one.
AuthContext_resolve(r) ==
    /\ r.call = "AuthForm.handleSubmit"
    /\ r.stage = "sent"
    /\ \/ Answer(r, TRUE, <<>>)
       \/ \E message \in AuthMessages : Answer(r, FALSE, <<message>>)
    /\ UNCHANGED <<Environment, Gateway, activeTab, loading, expenses, budgets,
                   goals, categories, searchTerm, selectedCategory, screen,
                   issued, applied, removed, dialog, arrived, form>>

\* The error a catch block would show that tests the message alone.
AuthError_anyMode(isLogin, message) ==
    IF message = InvalidLoginCredentials
    THEN IncorrectEmailOrPassword
    ELSE message

\* The error the catch block shows for a failure with the given message.
AuthError(isLogin, message) ==
    IF isLogin /\ message = InvalidLoginCredentials
    THEN IncorrectEmailOrPassword
    ELSE message

\* handleSubmit after its await: catch and finally.
AuthForm_handleSubmit_response(r) ==
    /\ r.call = "AuthForm.handleSubmit"
    /\ r.stage = "settled"
    /\ inflight' = inflight \ {r}
    /\ form' = Some([form[1] EXCEPT
                       !.error = IF r.ok THEN @
                                 ELSE AuthError(r.row[1].isLogin, r.data[1]),
                       !.loading = FALSE])
    /\ UNCHANGED <<Environment, Gateway, activeTab, loading, expenses, budgets,
                   goals, categories, searchTerm, selectedCategory, screen,
                   issued, applied, removed, dialog, arrived>>

InitAuth ==
    /\ tz \in Zones
    /\ now \in FormInstants
    /\ user = SignedOut
    /\ db_expenses = {}
    /\ db_budgets = {}
    /\ db_goals = {}
    /\ activeTab = "dashboard"
    /\ loading = TRUE
    /\ expenses = <<>>
    /\ budgets = <<>>
    /\ goals = <<>>
    /\ categories = <<>>
    /\ searchTerm = <<>>
    /\ selectedCategory = ""
    /\ screen = Render("dashboard", TRUE, <<>>, <<>>, <<>>, <<>>, "", now, tz)
    /\ inflight = {}
    /\ issued = 0
    /\ applied = 0
    /\ removed = {}
    /\ dialog = None
    /\ arrived = None
    /\ form = Some([isLogin |-> TRUE, loading |-> FALSE, error |-> ""])

NextAuth ==
    \/ AuthForm_setIsLogin
    \/ AuthForm_handleSubmit_request
    \/ \E r \in inflight : AuthContext_resolve(r)
    \/ \E r \in inflight : AuthForm_handleSubmit_response(r)

SpecAuth == InitAuth /\ [][NextAuth]_vars

AuthSubmits == { r \in inflight : r.call = "AuthForm.handleSubmit" }

\* The submits whose handler finishes in this step, and those among them
\* that failed.
AuthSubmitsHandled == { r \in AuthSubmits : r.stage = "settled" /\ r \notin inflight' }

AuthFailuresHandled == { r \in AuthSubmitsHandled : ~r.ok }

\* The submits sent in this step.
AuthSubmitsSent ==
    { r \in inflight' : /\ r.call = "AuthForm.handleSubmit"
                        /\ \A s \in inflight : s.rid # r.rid }

\* Every submit clears the error and every settled submit clears the
\* loading flag.
AuthSubmitBrackets ==
    /\ \A r \in AuthSubmitsSent : form'[1].error = "" /\ form'[1].loading
    /\ \A r \in AuthSubmitsHandled : ~form'[1].loading

\* C23 as stated: a failed submit shows the sentence about the email or
\* password whenever the message is 'Invalid login credentials' and the
\* message itself otherwise; every submit first clears the error; the
\* loading flag is false once the submit has settled.
C23_FailedSubmitShowsSentence ==
    [][/\ \A r \in AuthFailuresHandled :
            form'[1].error = IF r.data[1] = InvalidLoginCredentials
                             THEN IncorrectEmailOrPassword
                             ELSE r.data[1]
       /\ AuthSubmitBrackets]_vars

\* C23, amended: a failed submit shows the sentence about the email or
\* password when it was a sign-in and the message is 'Invalid login
\* credentials', and the message itself otherwise, a failed sign-up with
\* that message included; every submit first clears the error; the loading
\* flag is false once the submit has settled.
C23_FailedSignInShowsSentence ==
    [][/\ \A r \in AuthFailuresHandled :
            form'[1].error = IF /\ r.row[1].isLogin
                                /\ r.data[1] = InvalidLoginCredentials
                             THEN IncorrectEmailOrPassword
                             ELSE r.data[1]
       /\ AuthSubmitBrackets]_vars

\* A failed sign-up has shown 'Invalid login credentials' as it came.
C23_Witness ==
    /\ user = SignedOut
    /\ form # None
    /\ form[1].error = InvalidLoginCredentials
    /\ ~form[1].loading
    /\ inflight = {}

----------------------------------------------------------------------------
(* The amount of an expense from the form to the reloaded view. In this    *)
(* specification an amount counts thousandths, so that an entry with a     *)
(* third decimal can be told from the value the column keeps of it.        *)

\* One hundredth, the step of the amount field and the scale of the column.
Cent == 10

\* The entries typed into the amount field: 12.34, 12.345, 30 and 0.005.
TypedAmounts == {12340, 12345, 30000, 5}

\* The browser's validation of <input type="number" step="0.01">: the entry
\* is not a whole number of steps.
stepMismatch(entry) == entry % Cent # 0

\* amount decimal(10,2): the column keeps the value rounded to its scale,
\* halves away from zero.
decimal_10_2(x) ==
    IF x >= 0
    THEN ((x + Cent \div 2) \div Cent) * Cent
    ELSE -((((-x) + Cent \div 2) \div Cent) * Cent)

\* A form that is submitted whatever the entry.
ExpenseForm_onSubmit_noValidate(entry) ==
    ExpenseForm_handleSubmit_request(entry)

\* <form onSubmit={handleSubmit}>: the submit event is raised when the
\* entry passes the browser's validation, and handleSubmit runs up to its
\* await with parseFloat of the entry.
ExpenseForm_onSubmit(entry) ==
    /\ ~stepMismatch(entry)
    /\ ExpenseForm_handleSubmit_request(entry)

\* from('expenses').insert(...) is served, the amount kept at the scale of
\* the column.
Gateway_insertExpense_decimal(r) ==
    /\ r \in inflight /\ r.stage = "sent"
    /\ r.call = "ExpenseForm.handleSubmit"
    /\ Inserted(r, /\ db_expenses' = db_expenses \cup
                        {[id          |-> NewIds[r.rid],
                          category_id |-> r.row[1].category_id,
                          amount      |-> decimal_10_2(r.row[1].amount),
                          description |-> r.row[1].description,
                          notes       |-> r.row[1].notes,
                          date        |-> r.row[1].date]}
                  /\ UNCHANGED <<db_budgets, db_goals>>)
    /\ UNCHANGED <<Environment, activeTab, loading, expenses, budgets, goals,
                   categories, searchTerm, selectedCategory, screen, issued,
                   applied, removed, dialog, arrived, form>>

InitRoundTrip ==
    /\ tz \in Zones
    /\ now \in FormInstants
    /\ user \in Principals
    /\ db_expenses = { e \in ExpensePool : e.id = "e1" }
    /\ db_budgets = {}
    /\ db_goals = {}
    /\ Loaded("expenses")

NextRoundTrip ==
    \/ setShowForm
    \/ onClose
    \/ \E entry \in TypedAmounts : ExpenseForm_onSubmit(entry)
    \/ \E r \in inflight : Gateway_insertExpense_decimal(r)
    \/ \E r \in inflight : ExpenseForm_handleSubmit_response(r)
    \/ \E r \in inflight : Gateway_selectExpenses(r)
    \/ \E r \in inflight : ExpensesList_loadExpenses_response(r)

SpecRoundTrip == InitRoundTrip /\ [][NextRoundTrip]_vars

\* The reloads that follow an insert and whose response is applied in this
\* step.
ReloadsApplied ==
    { r \in inflight : /\ r.call = "ExpensesList.loadExpenses"
                       /\ r.row # None
                       /\ r.stage = "settled" /\ r.ok
                       /\ r \notin inflight' }

\* C24: when the reload that follows the insert of an expense with amount A
\* is applied, the view's collection holds exactly one record for that
\* insert and its amount is A.
C24_InsertedAmountRoundTrips ==
    [][\A r \in ReloadsApplied :
          /\ Cardinality({ i \in DOMAIN expenses' : expenses'[i].id = r.id }) = 1
          /\ \A i \in DOMAIN expenses' :
                expenses'[i].id = r.id => expenses'[i].amount = r.row[1].amount]_vars

\* The view was reloaded after the insert of 12.34 and shows its record.
C24_Witness ==
    /\ activeTab = "expenses"
    /\ ~loading
    /\ inflight = {}
    /\ arrived # None
    /\ \E i \in DOMAIN expenses :
          expenses[i].id = NewIds[1] /\ expenses[i].amount = 12340

----------------------------------------------------------------------------
(* The goals view and the gateway after the updates of a goal.             *)

\* Every request sent so far, the load of the mount included, was answered
\* with success and its response applied.
AllSettledSuccessfully ==
    /\ inflight = {}
    /\ applied = issued + 1

\* C25: once every outstanding update of a goal has settled successfully,
\* the current_amount the view holds for the goal is the one the gateway
\* stores, whatever the order of the requests and of the responses.
C25_MemoryAgreesWithStore ==
    (activeTab = "goals" /\ AllSettledSuccessfully) =>
        \A i \in DOMAIN goals :
            StoredAmounts(db_goals, goals[i].id) = { goals[i].current_amount }

\* The successful updates whose response is applied in this step.
UpdatesApplied ==
    { r \in UpdatesInFlight : r.stage = "settled" /\ r.ok /\ r \notin inflight' }

\* The goals with the current_amount of the goal id set to newAmount and
\* nothing else changed.
OnlyTargetChanged(r) ==
    /\ Len(goals') = Len(goals)
    /\ \A i \in DOMAIN goals :
          goals'[i] = IF goals[i].id = r.id
                      THEN [goals[i] EXCEPT !.current_amount = r.newAmount]
                      ELSE goals[i]

\* C26: a failed delete or update leaves the view's collections as they
\* were, and a successful update changes the current_amount of its goal
\* and nothing else.
C26_FailureKeepsCollectionUpdateTouchesTarget ==
    [][/\ FailuresHandled # {} => UNCHANGED <<expenses, budgets, goals>>
       /\ \A r \in UpdatesApplied : OnlyTargetChanged(r)]_vars

----------------------------------------------------------------------------
(* The forms' handleSubmit after the insert has settled.                   *)

\* The inserts whose handler finishes in this step.
InsertsHandled ==
    { r \in inflight : r.call \in Inserts /\ r.stage = "settled" /\ r \notin inflight' }

\* The load the parent view passes to the form as onSave.
ReloadOf(call) ==
    CASE call = "ExpenseForm.handleSubmit" -> "ExpensesList.loadExpenses"
      [] call = "BudgetForm.handleSubmit"  -> "loadBudgets"
      [] call = "GoalForm.handleSubmit"    -> "loadGoals"

\* C27: a successful insert starts the parent's reload with the form as it
\* was and then closes the form; a failed insert starts no reload and
\* leaves an open form open; either way the saving flag is false once the
\* submit has settled.
C27_SaveThenCloseOnSuccessOnly ==
    [][\A r \in InsertsHandled :
          /\ r.ok => /\ \E q \in RequestsSent :
                          /\ RequestsSent = {q}
                          /\ q.call = ReloadOf(r.call)
                          /\ q.snapshot = form
                     /\ loading'
                     /\ form' = None
          /\ ~r.ok => /\ RequestsSent = {}
                      /\ UNCHANGED loading
                      /\ form # None => form' # None
          /\ form' # None => ~form'[1].saving]_vars

\* A successful insert has been handled: the reload was started while the
\* form was open and saving, and the form is closed.
C27_Witness ==
    /\ form = None
    /\ loading
    /\ \E q \in inflight :
          /\ q.call = "loadBudgets"
          /\ q.row # None
          /\ q.snapshot = Some([saving |-> TRUE])

----------------------------------------------------------------------------
(* The loads of the four views with their requests in flight. The          *)
(* dashboard's load awaits four reads one after the other; its request     *)
(* carries the results of the reads that were served, in data. The effect  *)
(* of the dashboard runs once, when the view mounts; the effects of the    *)
(* list views run again.                                                   *)

\* The reads of loadDashboardData with no limit on the expenses.
DashboardRead_noLimit(k) ==
    CASE k = 1 -> { SelectCategories }
      [] k = 2 -> SelectExpensesByDate
      [] k = 3 -> SelectBudgets
      [] k = 4 -> SelectGoals

\* What the read number k of loadDashboardData can return as data.
DashboardRead(k) ==
    CASE k = 1 -> { SelectCategories }
      [] k = 2 -> { Limit(rows, DashboardLimit) : rows \in SelectExpensesByDate }
      [] k = 3 -> SelectBudgets
      [] k = 4 -> SelectGoals

\* The read loadDashboardData awaits is served, with rows or with null, and
\* the handler goes on to its next await; or the await throws.
Gateway_selectDashboard(r) ==
    /\ r \in inflight /\ r.stage = "sent" /\ r.call = "loadDashboardData"
    /\ LET k == Len(r.data) + 1
           stage == IF k = 4 THEN "settled" ELSE "sent"
       IN  \/ \E rows \in DashboardRead(k) :
                inflight' = (inflight \ {r}) \cup
                    {[r EXCEPT !.data = Append(@, Some(rows)),
                               !.stage = stage, !.ok = TRUE]}
           \/ inflight' = (inflight \ {r}) \cup
                    {[r EXCEPT !.data = Append(@, None),
                               !.stage = stage, !.ok = TRUE]}
           \/ Answer(r, FALSE, <<>>)
    /\ UNCHANGED <<Environment, Gateway, activeTab, loading, expenses, budgets,
                   goals, categories, searchTerm, selectedCategory, screen,
                   issued, applied, removed, dialog, arrived, form>>

\* data || []
OrEmpty(data) == IF data = None THEN <<>> ELSE data[1]

\* loadDashboardData after its last await that leaves loading as it is.
Dashboard_loadDashboardData_response_noFinally(r) ==
    /\ r \in inflight /\ r.stage = "settled" /\ r.call = "loadDashboardData"
    /\ IF r.ok
       THEN /\ categories' = OrEmpty(r.data[1])
            /\ expenses' = OrEmpty(r.data[2])
            /\ budgets' = OrEmpty(r.data[3])
            /\ goals' = OrEmpty(r.data[4])
       ELSE UNCHANGED <<categories, expenses, budgets, goals>>
    /\ UNCHANGED loading
    /\ inflight' = inflight \ {r}
    /\ arrived' = IF r.ok THEN Some(r.rid) ELSE arrived
    /\ applied' = IF r.ok THEN applied + 1 ELSE applied
    /\ UNCHANGED <<Environment, Gateway, activeTab, searchTerm,
                   selectedCategory, issued, removed, dialog, form>>
    /\ Rerender

\* loadDashboardData after its last await: the four collections are set,
\* or the catch block logs what was thrown; finally loading is cleared.
Dashboard_loadDashboardData_response(r) ==
    /\ r \in inflight /\ r.stage = "settled" /\ r.call = "loadDashboardData"
    /\ IF r.ok
       THEN /\ categories' = OrEmpty(r.data[1])
            /\ expenses' = OrEmpty(r.data[2])
            /\ budgets' = OrEmpty(r.data[3])
            /\ goals' = OrEmpty(r.data[4])
       ELSE UNCHANGED <<categories, expenses, budgets, goals>>
    /\ loading' = FALSE
    /\ inflight' = inflight \ {r}
    /\ arrived' = IF r.ok THEN Some(r.rid) ELSE arrived
    /\ applied' = IF r.ok THEN applied + 1 ELSE applied
    /\ UNCHANGED <<Environment, Gateway, activeTab, searchTerm,
                   selectedCategory, issued, removed, dialog, form>>
    /\ Rerender

InitLoads ==
    /\ db_expenses = { e \in ExpensePool : e.id = "e1" }
    /\ db_budgets = { b \in BudgetPool : b.id = "b1" }
    /\ db_goals = { g \in GoalPool : g.id = "g1" }
    /\ \E tab \in Tabs : Mounted(tab, MountRequests(tab))

\* The views start their loads.
StartLoad ==
    \/ BudgetsList_useEffect
    \/ ExpensesList_useEffect
    \/ GoalsList_loadGoals_request

\* The gateway serves a read.
ServeLoad ==
    \/ \E r \in inflight : Gateway_selectDashboard(r)
    \/ \E r \in inflight : Gateway_selectExpenses(r)
    \/ \E r \in inflight : Gateway_selectCategories(r)
    \/ \E r \in inflight : Gateway_selectBudgets(r)
    \/ \E r \in inflight : Gateway_selectGoals(r)

\* A load goes on after its await.
FinishLoad ==
    \/ \E r \in inflight : Dashboard_loadDashboardData_response(r)
    \/ \E r \in inflight : BudgetsList_loadBudgets_response(r)
    \/ \E r \in inflight : BudgetsList_loadExpenses_response(r)
    \/ \E r \in inflight : ExpensesList_loadExpenses_response(r)
    \/ \E r \in inflight : ExpensesList_loadCategories_response(r)
    \/ \E r \in inflight : GoalsList_loadGoals_response(r)

NextLoads == StartLoad \/ ServeLoad \/ FinishLoad

\* Every request the gateway holds is served in the end, and a handler whose
\* await has settled goes on.
SpecLoads ==
    InitLoads /\ [][NextLoads]_vars /\ WF_vars(ServeLoad) /\ WF_vars(FinishLoad)

\* The loads that set and clear the loading flag of their view.
ViewLoads ==
    {"loadDashboardData", "ExpensesList.loadExpenses", "loadBudgets", "loadGoals"}

\* The numbers of the requests a view sends.
RequestIds == (-1)..(MaxIssued + 1)

\* The load with the number n is outstanding.
LoadOutstanding(n) == \E r \in inflight : r.rid = n /\ r.call \in ViewLoads

\* The loads that end in this step.
LoadsFinished ==
    { r \in inflight : /\ r.call \in ViewLoads
                       /\ r.stage = "settled"
                       /\ r \notin inflight' }

\* C28: when every request settles in the end, every load a view starts
\* ends, its last step leaves the view's loading flag false, and the flag
\* does not stay true forever.
C28_LoadingEventuallyCleared ==
    /\ \A n \in RequestIds : []<>~LoadOutstanding(n)
    /\ [][LoadsFinished # {} => ~loading']_vars
    /\ []<>~loading

\* The dashboard's load has ended after one of its awaits threw: loading
\* is false and the collections are as they were.
C28_Witness ==
    /\ activeTab = "dashboard"
    /\ ~loading
    /\ inflight = {}
    /\ arrived = None
    /\ issued = 0

----------------------------------------------------------------------------
(* The dashboard of a principal with more expenses than the dashboard      *)
(* reads.                                                                  *)

ManyIds == <<"m1", "m2", "m3", "m4", "m5", "m6", "m7", "m8", "m9", "m10",
             "m11", "m12">>

\* Twelve expenses of March 2024, two to a day from the second on, so that
\* the tenth and the eleventh latest tie.
ManyExpenses ==
    { [id          |-> ManyIds[i],
       category_id |-> IF i % 3 = 0 THEN "c8" ELSE "c1",
       amount      |-> 10 * i,
       description |-> <<"t", "e", "a">>,
       notes       |-> None,
       date        |-> DaysFromCivil(2024, 3, 1) + (i \div 2)] : i \in DOMAIN ManyIds }

InitDashboard ==
    /\ db_expenses = ManyExpenses
    /\ db_budgets = { b \in BudgetPool : b.id = "b1" }
    /\ db_goals = {}
    /\ Mounted("dashboard", MountRequests("dashboard"))

NextDashboard ==
    \/ \E r \in inflight : Gateway_selectDashboard(r)
    \/ \E r \in inflight : Dashboard_loadDashboardData_response(r)

SpecDashboard == InitDashboard /\ [][NextDashboard]_vars

\* The stored expenses the dashboard does not hold.
NotHeld == { x \in db_expenses : \A i \in DOMAIN expenses : expenses[i].id # x.id }

\* C29: the dashboard holds at most 10 expenses, each a stored expense held
\* once, none earlier than a stored expense it does not hold, and the
\* monthly spend, the category distribution and the budget progress it
\* shows are those of the expenses it holds.
C29_DashboardHoldsLatestTen ==
    activeTab = "dashboard" =>
        /\ Len(expenses) <= DashboardLimit
        /\ OrderedByDateDesc(expenses)
        /\ \A i \in DOMAIN expenses :
              /\ \E x \in db_expenses : expenses[i] = WithCategory(x)
              /\ \A j \in DOMAIN expenses : expenses[i].id = expenses[j].id => i = j
              /\ \A x \in NotHeld : x.date <= expenses[i].date
        /\ (expenses # <<>> /\ NotHeld # {}) => Len(expenses) = DashboardLimit
        /\ screen.monthlySpending = calculateMonthlySpending(expenses, now, tz)
        /\ screen.expensesByCategory = getExpensesByCategory(expenses)
        /\ screen.budgetProgress =
              Dashboard_getBudgetProgress(budgets, expenses, now, tz)

\* The dashboard has loaded 10 of the 12 stored expenses of the month, and
\* the monthly spend it shows is less than the sum of the stored amounts.
C29_Witness ==
    /\ activeTab = "dashboard"
    /\ ~loading
    /\ arrived # None
    /\ Len(expenses) = DashboardLimit
    /\ Cardinality(db_expenses) > DashboardLimit
    /\ \E all \in SortedByDateDesc(db_expenses) :
          screen.monthlySpending < calculateMonthlySpending(all, now, tz)

----------------------------------------------------------------------------
(* The increment field of a goal card.                                     *)

\* The update requests sent in this step.
UpdatesSent == { r \in RequestsSent : r.call = "updateProgress" }

\* C30: an update request is sent only for an entry that parses to a number
\* above 0, and the stored current_amount changes only when the gateway
\* serves such a request; an empty, non-numeric, zero or negative entry
\* sends nothing and changes nothing.
C30_UpdateOnlyForPositiveEntry ==
    [][/\ \A r \in UpdatesSent : Increment(r) > 0
       /\ db_goals' # db_goals =>
             \E r \in UpdatesInFlight : ServedNow(r) /\ Increment(r) > 0]_vars

\* An entry of 10 has sent its request, which the gateway has not served.
C30_Witness ==
    /\ activeTab = "goals"
    /\ \E r \in UpdatesInFlight :
          /\ r.stage = "sent"
          /\ Increment(r) = 10
          /\ StoredAmounts(db_goals, r.id) = { r.base }

====
